---- MODULE Spec2Model ----
(***************************************************************************)
(* A model of data_analysis_agent.core.excel_reader.ExcelReader: the      *)
(* per-file data cache (an OrderedDict used as an LRU map), the row-count  *)
(* cache, the hit/miss counters, and the _read_file / read / query /       *)
(* get_row_count / clear_cache operations, together with the file they     *)
(* read (modification time, columns, content version).                     *)
(*                                                                         *)
(* Python values are modelled as follows.                                  *)
(*   - a str is a TLA+ string; a str that is parsed character by character *)
(*     (the usecols argument) is a sequence of one-character strings;      *)
(*   - None is the string NoneVal, which is no sheet or column name;       *)
(*   - a DataFrame is a record [id, cols, rows]: id is the identity of the *)
(*     object, cols the sequence of its columns, each [name, val], val     *)
(*     standing for the cells of the column, rows the number of its rows.  *)
(*     An object is identified by the reference it is created for: the     *)
(*     cache key it is stored under, the caller it is returned to, or a    *)
(*     local variable; copy() creates a new object;                        *)
(*   - an OrderedDict is a sequence of entries, first = least recent.      *)
(***************************************************************************)
EXTENDS Integers, Sequences, FiniteSets, TLC

VARIABLES
    file,             \* the file on disk: [mtime, cols]
    suffix,           \* self.file_path.suffix.lower()
    enable_cache,     \* self.enable_cache
    cache,            \* self._cache: sequence of [key, df, mtime]
    row_count_cache,  \* self._row_count_cache: sequence of [key, count, mtime]
    cache_hits,       \* self._cache_hits
    cache_misses,     \* self._cache_misses
    last,             \* what the last call did and returned to its caller
    _readers,         \* ReaderManager._readers: sequence of [key, reader, last_used]
    _hits,            \* ReaderManager._hits
    _misses,          \* ReaderManager._misses
    _lock,            \* ReaderManager._lock: the thread that holds it, or NoThread
    clock,            \* time.time()
    disk,             \* per path: st_mtime of the file, or Missing
    threads,          \* per thread: where it is in get_reader
    made,             \* number of ExcelReader objects constructed by the manager
    calls,            \* per thread: the _read_file call it is making on the reader;
                      \* in ChunkSpec the tasks of read_parallel_chunks' pool
    lookups,          \* number of cached lookups of _read_file completed
    counted           \* calls of get_reader; calls of ExcelReader(...) (constructed)
                      \* and returns of a registered reader (reused) since the last
                      \* clear(); paths written since their reader was handed out

rvars == <<file, suffix, enable_cache, cache, row_count_cache,
           cache_hits, cache_misses>>

mvars == <<_readers, _hits, _misses, _lock, clock, disk, threads, made, counted>>

cvars == <<calls, lookups>>

vars == <<file, suffix, enable_cache, cache, row_count_cache,
          cache_hits, cache_misses, last,
          _readers, _hits, _misses, _lock, clock, disk, threads, made, counted,
          calls, lookups>>

-----------------------------------------------------------------------------
(* Bounds of the model *)

\* self.max_cache_size of the reader under study (constructor argument)
max_cache_size == 2

\* counted lookups and rewrites of the file explored in one run:
\* cache_hits + cache_misses + file.mtime never exceeds MaxCalls
MaxCalls == 4

-----------------------------------------------------------------------------
(* Python values *)

NoneVal == "<None>"

\* the characters a usecols string is made of
Letters == {"A", "B", "C", "Z"}
Chars == Letters \cup {",", " ", ":"}

\* ord() of the one-character column names of the model
Ord(c) ==
    CASE c = "A" -> 65
      [] c = "B" -> 66
      [] c = "C" -> 67
      [] c = "Z" -> 90

\* str < str for one-character strings
PyLess(a, b) == Ord(a) < Ord(b)

\* "".join(chars)
RECURSIVE Concat(_)
Concat(s) == IF s = <<>> THEN "" ELSE Head(s) \o Concat(Tail(s))

\* sep.join(strs)
RECURSIVE Join(_, _)
Join(strs, sep) ==
    IF strs = <<>> THEN ""
    ELSE IF Len(strs) = 1 THEN Head(strs)
    ELSE Head(strs) \o sep \o Join(Tail(strs), sep)

\* str.split(','): the pieces of a character sequence between commas
RECURSIVE Split(_)
Split(s) ==
    IF \A i \in 1..Len(s) : s[i] # ","
    THEN <<s>>
    ELSE LET i == CHOOSE k \in 1..Len(s) :
                      s[k] = "," /\ \A j \in 1..(k-1) : s[j] # ","
         IN <<SubSeq(s, 1, i-1)>> \o Split(SubSeq(s, i+1, Len(s)))

\* str.strip(): leading and trailing blanks removed
RECURSIVE Strip(_)
Strip(s) ==
    IF s = <<>> THEN s
    ELSE IF Head(s) = " " THEN Strip(Tail(s))
    ELSE IF s[Len(s)] = " " THEN Strip(SubSeq(s, 1, Len(s)-1))
    ELSE s

\* sorted(list of str): insertion sort, stable, duplicates kept
RECURSIVE Insert(_, _)
Insert(x, s) ==
    IF s = <<>> THEN <<x>>
    ELSE IF PyLess(x, Head(s)) THEN <<x>> \o s
    ELSE <<Head(s)>> \o Insert(x, Tail(s))

RECURSIVE Sorted(_)
Sorted(s) == IF s = <<>> THEN <<>> ELSE Insert(s[Len(s)], Sorted(SubSeq(s, 1, Len(s)-1)))

\* str(int) for the column indexes of the model
IntStr(n) ==
    CASE n = 0 -> "0"
      [] n = 1 -> "1"
      [] n = 2 -> "2"
      [] n = 3 -> "3"

RECURSIVE MapIntStr(_)
MapIntStr(s) == IF s = <<>> THEN <<>> ELSE <<IntStr(Head(s))>> \o MapIntStr(Tail(s))

\* str(list of int), e.g. "[0, 2]"
ListRepr(ints) == "[" \o Join(MapIntStr(ints), ", ") \o "]"

Range(s) == {s[i] : i \in 1..Len(s)}

-----------------------------------------------------------------------------
(* The usecols argument.                                                   *)
(*   [kind |-> "none"]                    None                             *)
(*   [kind |-> "list", names |-> seq]     a list of column names           *)
(*   [kind |-> "ints", idx |-> seq]       a list of column indexes         *)
(*   [kind |-> "str",  text |-> chars]    a string                         *)
(* _parse_usecols returns the first three, or                              *)
(*   [kind |-> "range", text |-> chars]   a column-letter range "A:C"      *)

UseNone == [kind |-> "none"]
UseList(names) == [kind |-> "list", names |-> names]
UseInts(idx) == [kind |-> "ints", idx |-> idx]
UseStr(text) == [kind |-> "str", text |-> text]

\* ':' in usecols and usecols.replace(':', '').replace(' ', '').isalpha()
IsLetterRange(text) ==
    LET rest == SelectSeq(text, LAMBDA c : c # ":" /\ c # " ")
    IN  /\ ":" \in Range(text)
        /\ rest # <<>>
        /\ \A i \in 1..Len(rest) : rest[i] \in Letters

RECURSIVE StripAll(_)
StripAll(pieces) ==
    IF pieces = <<>> THEN <<>>
    ELSE <<Concat(Strip(Head(pieces)))>> \o StripAll(Tail(pieces))

_parse_usecols(usecols) ==
    IF usecols.kind = "none" THEN UseNone
    ELSE IF usecols.kind \in {"list", "ints"} THEN usecols
    ELSE IF IsLetterRange(usecols.text)
         THEN [kind |-> "range", text |-> usecols.text]
    ELSE LET cols == SelectSeq(StripAll(Split(usecols.text)), LAMBDA c : c # "")
         IN  IF cols # <<>> THEN UseList(cols) ELSE UseNone

\* sheet_name or 'default'
SheetKey(sheet_name) == IF sheet_name \in {NoneVal, ""} THEN "default" ELSE sheet_name

_normalize_cache_key(sheet_name, usecols) ==
    LET sheet == SheetKey(sheet_name)
    IN  IF usecols.kind = "none" THEN sheet \o ":full"
        ELSE IF usecols.kind = "list" /\ usecols.names # <<>>
             THEN sheet \o ":cols:" \o Join(Sorted(usecols.names), ",")
        ELSE IF usecols.kind = "list" THEN sheet \o ":cols:[]"
        ELSE IF usecols.kind = "ints" THEN sheet \o ":cols:" \o ListRepr(usecols.idx)
        ELSE sheet \o ":cols:" \o Concat(usecols.text)

-----------------------------------------------------------------------------
(* The file and the decoder (pandas.read_excel / pandas.read_csv).         *)
(* The file has the columns file.cols, in the order of FileOrder.  Every   *)
(* modification gives the file a later modification time and new content;  *)
(* the cells of a column are summarised by the sheet they belong to and    *)
(* the content version, which is the modification time of the write.       *)

Columns == {"A", "B", "C"}
FileOrder == <<"A", "B", "C">>
ColumnSets == {{"A", "B", "C"}, {"A", "B"}}
WorkbookSheets == <<"Sheet1", "Sheet2">>
Suffixes == {".xlsx", ".txt"}

Cell(sheet, ver) == [sheet |-> sheet, ver |-> ver]
Column(name, sheet, ver) == [name |-> name, val |-> Cell(sheet, ver)]

\* the value a caller writes into a DataFrame it was handed
MutatedVal == [sheet |-> "", ver |-> -1]

FileColumns == SelectSeq(FileOrder, LAMBDA c : c \in file.cols)

Names(cols) == {cols[i].name : i \in 1..Len(cols)}

\* the sheet read_excel reads for sheet_name=sheet_name or 0; "" if there is none
SheetRead(sheet_name) ==
    IF suffix = ".csv" THEN "Sheet1"
    ELSE IF sheet_name \in {NoneVal, ""} THEN WorkbookSheets[1]
    ELSE IF sheet_name \in Range(WorkbookSheets) THEN sheet_name
    ELSE ""

\* the 0-based positions a letter range "X:Y" selects, {-1} if it is malformed
RangePositions(text) ==
    LET t == SelectSeq(text, LAMBDA c : c # " ")
    IN  IF Len(t) = 3 /\ t[2] = ":" /\ t[1] \in Letters /\ t[3] \in Letters
        THEN (Ord(t[1]) - 65) .. (Ord(t[3]) - 65)
        ELSE {-1}

\* the names of the file's columns that usecols selects; {""} when the decoder
\* rejects the selection
Selected(usecols) ==
    LET n == Len(FileColumns)
        At(ps) == IF ps \subseteq 0..(n-1) THEN {FileColumns[p+1] : p \in ps} ELSE {""}
    IN  CASE usecols.kind = "none" -> Range(FileColumns)
          [] usecols.kind = "list" ->
                IF Range(usecols.names) \subseteq Range(FileColumns)
                THEN Range(usecols.names) ELSE {""}
          [] usecols.kind = "ints" -> At(Range(usecols.idx))
          [] usecols.kind = "range" ->
                IF suffix = ".csv" THEN {""} ELSE At(RangePositions(usecols.text))

RECURSIVE MakeColumns(_, _, _)
MakeColumns(names, sheet, ver) ==
    IF names = <<>> THEN <<>>
    ELSE <<Column(Head(names), sheet, ver)>> \o MakeColumns(Tail(names), sheet, ver)

\* the number of data rows of a sheet at content version ver
FileRows(sheet, ver) == IF sheet = WorkbookSheets[1] THEN ver + 1 ELSE ver + 2

\* pd.read_excel(...) / pd.read_csv(...): [ok, err, cols, rows]; vanished
\* when the file is not there at the moment it is opened
Decode(sheet_name, usecols, vanished) ==
    LET sel == Selected(usecols)
        fail(e) == [ok |-> FALSE, err |-> e, cols |-> <<>>, rows |-> 0]
    IN  IF suffix \notin {".xlsx", ".xls", ".csv"} THEN fail("ValueError")
        ELSE IF vanished THEN fail("FileNotFoundError")
        ELSE IF SheetRead(sheet_name) = "" THEN fail("ValueError")
        ELSE IF "" \in sel THEN fail("ValueError")
        ELSE [ok |-> TRUE, err |-> "",
              cols |-> MakeColumns(SelectSeq(FileColumns, LAMBDA c : c \in sel),
                                   SheetRead(sheet_name), file.mtime),
              rows |-> FileRows(SheetRead(sheet_name), file.mtime)]

-----------------------------------------------------------------------------
(* DataFrame objects *)

NoDF == [id |-> "", cols |-> <<>>, rows |-> 0]

\* the object handed to the caller, and an object held in a local variable
CallerId == "caller"
LocalId == "local"

\* df.copy(): a new object, identity id, with the same contents
Copy(df, id) == [id |-> id, cols |-> df.cols, rows |-> df.rows]

ColumnNamed(cols, name) == cols[CHOOSE i \in 1..Len(cols) : cols[i].name = name]

RECURSIVE Pick(_, _)
Pick(cols, names) ==
    IF names = <<>> THEN <<>>
    ELSE <<ColumnNamed(cols, Head(names))>> \o Pick(cols, Tail(names))

\* Slice without the column selection: the whole of full_df
SliceWhole(full_df, usecols) == [ok |-> TRUE, cols |-> full_df.cols]

\* full_df[parsed_usecols]: [ok, cols]; ok = FALSE is KeyError
Slice(full_df, usecols) ==
    IF usecols.kind = "list" /\ Range(usecols.names) \subseteq Names(full_df.cols)
    THEN [ok |-> TRUE, cols |-> Pick(full_df.cols, usecols.names)]
    ELSE [ok |-> FALSE, cols |-> <<>>]

-----------------------------------------------------------------------------
(* OrderedDict *)

Keys(d) == {d[i].key : i \in 1..Len(d)}
HasKey(d, k) == k \in Keys(d)
Get(d, k) == d[CHOOSE i \in 1..Len(d) : d[i].key = k]

\* d.move_to_end(k)
MoveToEnd(d, k) == SelectSeq(d, LAMBDA e : e.key # k) \o <<Get(d, k)>>

\* d[k] = entry: in place when k is present, appended otherwise
SetItem(d, entry) ==
    IF HasKey(d, entry.key)
    THEN [i \in 1..Len(d) |-> IF d[i].key = entry.key THEN entry ELSE d[i]]
    ELSE Append(d, entry)

-----------------------------------------------------------------------------
(* ExcelReader._read_file.  The operators below give the outcome of a     *)
(* call as a record                                                        *)
(*   [status, err, kind, found, df, cache, hits, misses]                   *)
(* status "ok" or "error" (err the exception raised), kind the path taken  *)
(* ("exact", "derived", "miss", or "nocache" when the cache is disabled),  *)
(* found what the lookup of cache_key met ("valid", "stale", "absent", ""  *)
(* when there is no lookup), df the DataFrame returned, and cache, hits,   *)
(* misses the reader's state after the call.                               *)

Outcome(status, err, kind, df, c, h, m) ==
    [status |-> status, err |-> err, kind |-> kind, found |-> "", df |-> df,
     cache |-> c, hits |-> h, misses |-> m]

\* EntryValid without the comparison: every entry found is used
EntryValidAlways(entry, mtime) == TRUE

\* EntryValid with cached_mtime <= mtime in place of ==
EntryValidOlder(entry, mtime) == entry.mtime <= mtime

\* cached_mtime == mtime
EntryValid(entry, mtime) == entry.mtime = mtime

\* Evict with popitem(last=True): the newest entries go first
RECURSIVE EvictNewest(_)
EvictNewest(d) ==
    IF Len(d) > max_cache_size THEN EvictNewest(SubSeq(d, 1, Len(d) - 1)) ELSE d

\* while len(self._cache) > self.max_cache_size: self._cache.popitem(last=False)
RECURSIVE Evict(_)
Evict(d) == IF Len(d) > max_cache_size THEN Evict(Tail(d)) ELSE d

\* ExactHit without self._cache_hits += 1
ExactHitUncounted(cache_key) ==
    LET cached_df == Get(cache, cache_key).df
    IN  Outcome("ok", "", "exact", Copy(cached_df, CallerId),
                MoveToEnd(cache, cache_key), cache_hits, cache_misses)

\* ExactHit with "return cached_df" in place of "return cached_df.copy()"
ExactHitShared(cache_key) ==
    LET cached_df == Get(cache, cache_key).df
    IN  Outcome("ok", "", "exact", cached_df,
                MoveToEnd(cache, cache_key), cache_hits + 1, cache_misses)

\* the exact-hit branch
ExactHit(cache_key) ==
    LET cached_df == Get(cache, cache_key).df
    IN  Outcome("ok", "", "exact", Copy(cached_df, CallerId),
                MoveToEnd(cache, cache_key), cache_hits + 1, cache_misses)

\* DerivedHit without the store of the slice
DerivedHitUnstored(cache_key, subset, rows, mtime) ==
    LET subset_df == [id |-> LocalId, cols |-> subset, rows |-> rows]
    IN  Outcome("ok", "", "derived", Copy(subset_df, CallerId),
                cache, cache_hits + 1, cache_misses)

\* the derived-hit branch, the slice of the full entry being subset
DerivedHit(cache_key, subset, rows, mtime) ==
    LET subset_df == [id |-> LocalId, cols |-> subset, rows |-> rows]
        stored == [key |-> cache_key, df |-> Copy(subset_df, cache_key),
                   mtime |-> mtime]
    IN  Outcome("ok", "", "derived", Copy(subset_df, CallerId),
                MoveToEnd(SetItem(cache, stored), cache_key),
                cache_hits + 1, cache_misses)

\* the store after a successful decode
MissStore(cache_key, df, mtime) ==
    LET stored == [key |-> cache_key, df |-> Copy(df, cache_key), mtime |-> mtime]
    IN  Evict(MoveToEnd(SetItem(cache, stored), cache_key))

\* DecodeAndStore with the entry under cache_key dropped before the decode
DecodeAndStoreDropFirst(sheet_name, parsed, cache_key, kind, misses, mtime, vanished) ==
    LET d == Decode(sheet_name, parsed, vanished)
        df == [id |-> CallerId, cols |-> d.cols, rows |-> d.rows]
        dropped == SelectSeq(cache, LAMBDA e : e.key # cache_key)
    IN  IF ~d.ok
        THEN Outcome("error", d.err, kind, NoDF, dropped, cache_hits, misses)
        ELSE Outcome("ok", "", kind, df,
                     IF enable_cache THEN MissStore(cache_key, df, mtime)
                     ELSE cache,
                     cache_hits, misses)

\* the decode and what follows it; misses is the miss counter at that point,
\* mtime the modification time read before the cache lookup
DecodeAndStore(sheet_name, parsed, cache_key, kind, misses, mtime, vanished) ==
    LET d == Decode(sheet_name, parsed, vanished)
        df == [id |-> CallerId, cols |-> d.cols, rows |-> d.rows]
    IN  IF ~d.ok
        THEN Outcome("error", d.err, kind, NoDF, cache, cache_hits, misses)
        ELSE Outcome("ok", "", kind, df,
                     IF enable_cache THEN MissStore(cache_key, df, mtime)
                     ELSE cache,
                     cache_hits, misses)

\* vanished: the file is removed after the cache lookup and before the decode
_read_file(sheet_name, usecols, vanished) ==
    LET parsed == _parse_usecols(usecols)
        cache_key == _normalize_cache_key(sheet_name, parsed)
        full_key == _normalize_cache_key(sheet_name, UseNone)
        mtime == file.mtime
        found == IF ~HasKey(cache, cache_key) THEN "absent"
                 ELSE IF EntryValid(Get(cache, cache_key), mtime) THEN "valid"
                 ELSE "stale"
        looked_up(r) == [r EXCEPT !.found = found]
    IN  IF ~enable_cache
        THEN DecodeAndStore(sheet_name, parsed, cache_key, "nocache", cache_misses,
                            mtime, vanished)
        ELSE IF HasKey(cache, cache_key) /\ EntryValid(Get(cache, cache_key), mtime)
        THEN looked_up(ExactHit(cache_key))
        ELSE IF /\ parsed.kind # "none"
                /\ HasKey(cache, full_key)
                /\ EntryValid(Get(cache, full_key), mtime)
                /\ Slice(Get(cache, full_key).df, parsed).ok
        THEN looked_up(DerivedHit(cache_key,
                                  Slice(Get(cache, full_key).df, parsed).cols,
                                  Get(cache, full_key).df.rows, mtime))
        ELSE looked_up(DecodeAndStore(sheet_name, parsed, cache_key, "miss",
                                      cache_misses + 1, mtime, vanished))

-----------------------------------------------------------------------------
(* The calls.  last records the call: its name, the sheet_name and usecols *)
(* arguments of a read, the file's modification time when it was made, its *)
(* status, the exception raised, the path _read_file took and what its     *)
(* lookup met, the DataFrame handed to the caller and the result           *)
(* dictionary.                                                             *)

NoOut == [data |-> <<>>, rows |-> 0, columns |-> 0]

Call(op, sheet_name, usecols, status, err, kind, df, out) ==
    [op |-> op, sheet |-> sheet_name, usecols |-> usecols, mtime |-> file.mtime,
     status |-> status, err |-> err, kind |-> kind, found |-> "", df |-> df,
     out |-> out]

\* a call that went through _read_file, with outcome r
ReadResult(op, sheet_name, usecols, r, status, err, df, out) ==
    [Call(op, sheet_name, usecols, status, err, r.kind, df, out)
        EXCEPT !.found = r.found]

\* the arguments the calls of the model are made with
ReadArgs == {<<NoneVal, UseNone>>,
             <<NoneVal, UseList(<<"A">>)>>,
             <<NoneVal, UseList(<<"B", "A">>)>>,
             <<NoneVal, UseList(<<"A", "B", "C">>)>>,
             <<"Sheet2", UseNone>>}
ReadCallArgs == {a \in ReadArgs : a[1] = NoneVal}
\* group_by, aggregation, aggregate_column
QueryArgs == {<<NoneVal, NoneVal, NoneVal>>,
              <<NoneVal, "sum", "B">>,
              <<"", "sum", "B">>,
              <<"A", NoneVal, "B">>,
              <<"A", "", "B">>,
              <<"A", "sum", "B">>,
              <<"A", "mode", "B">>}
RowCountArgs == {NoneVal}

\* a cached lookup counts one hit or one miss and a rewrite of the file advances
\* its modification time by one; the model stops at MaxCalls of them
Events == cache_hits + cache_misses + file.mtime
CanCount == enable_cache => Events < MaxCalls

\* the reader's state after a _read_file call with outcome r
Commit(r) ==
    /\ cache' = r.cache
    /\ cache_hits' = r.hits
    /\ cache_misses' = r.misses
    /\ UNCHANGED <<suffix, enable_cache, row_count_cache>>

\* a tool calls reader._read_file(sheet_name, usecols) and keeps the DataFrame
ReadFileCall(sheet_name, usecols) ==
    LET r == _read_file(sheet_name, usecols, FALSE)
    IN  /\ CanCount
        /\ Commit(r)
        /\ UNCHANGED file
        /\ last' = ReadResult("_read_file", sheet_name, usecols, r,
                              r.status, r.err, r.df, NoOut)

\* the same call made while the file is being replaced: the file is there, with
\* its old modification time, at the cache lookup, is gone when the decoder opens
\* it, and is there again, rewritten, after the call
ReadFileVanished(sheet_name, usecols) ==
    LET r == _read_file(sheet_name, usecols, TRUE)
    IN  /\ Events + (IF enable_cache THEN 1 ELSE 0) < MaxCalls
        /\ r.kind \in {"miss", "nocache"}
        /\ Commit(r)
        /\ file' = [file EXCEPT !.mtime = file.mtime + 1]
        /\ last' = ReadResult("_read_file", sheet_name, usecols, r,
                              r.status, r.err, r.df, NoOut)

RECURSIVE ColNames(_)
ColNames(cols) == IF cols = <<>> THEN <<>> ELSE <<Head(cols).name>> \o ColNames(Tail(cols))

RECURSIVE ColVals(_)
ColVals(cols) == IF cols = <<>> THEN <<>> ELSE <<Head(cols).val>> \o ColVals(Tail(cols))

\* [df.columns.tolist()] + rows: the header, then the cells
_df_to_array(df) == <<ColNames(df.cols), ColVals(df.cols)>>

\* ExcelReader.read
ReadCall(sheet_name, usecols) ==
    LET r == _read_file(sheet_name, usecols, FALSE)
    IN  /\ CanCount
        /\ Commit(r)
        /\ UNCHANGED file
        /\ last' = ReadResult("read", sheet_name, usecols, r, r.status, r.err, NoDF,
                              IF r.status = "ok"
                              THEN [data |-> _df_to_array(r.df), rows |-> r.df.rows,
                                    columns |-> Len(r.df.cols)]
                              ELSE NoOut)

\* "x is None" in place of "not x"
IsNone(x) == x = NoneVal

\* not x, for an optional str argument x
Falsy(x) == x \in {NoneVal, ""}

\* the keys of agg_funcs
AggFuncs == {"sum", "avg", "count", "min", "max", "median", "std", "var",
             "first", "last", "nunique"}

\* agg_funcs[aggregation]
PandasFunc(aggregation) == IF aggregation = "avg" THEN "mean" ELSE aggregation

\* ExcelReader._group_and_aggregate: [ok, err, columns, vals].  The result has
\* two columns: the group labels, and per group the size of the group or the
\* pandas reduction of the aggregated column; vals stands for their cells.
_group_and_aggregate(df, group_by, aggregation, aggregate_column) ==
    LET fail(e) == [ok |-> FALSE, err |-> e, columns |-> <<>>, vals |-> <<>>]
        by == ColumnNamed(df.cols, group_by).val
    IN  IF aggregation \notin AggFuncs THEN fail("ValueError")
        ELSE IF aggregation \in {"count", "nunique"}
        THEN IF group_by \notin Names(df.cols) THEN fail("KeyError")
             ELSE [ok |-> TRUE, err |-> "",
                   columns |-> <<group_by, IF Falsy(aggregate_column) THEN aggregation
                                           ELSE aggregate_column>>,
                   vals |-> <<[labels |-> by], [agg |-> "size", by |-> by, of |-> by]>>]
        ELSE IF Falsy(aggregate_column) THEN fail("ValueError")
        ELSE IF group_by \notin Names(df.cols) THEN fail("KeyError")
        ELSE IF aggregate_column \notin Names(df.cols) THEN fail("KeyError")
        ELSE [ok |-> TRUE, err |-> "",
              columns |-> <<group_by, aggregate_column>>,
              vals |-> <<[labels |-> by],
                         [agg |-> PandasFunc(aggregation), by |-> by,
                          of |-> ColumnNamed(df.cols, aggregate_column).val]>>]

\* ExcelReader.query with filters=None, order_by=None and the default limit
QueryCall(group_by, aggregation, aggregate_column, sheet_name, usecols) ==
    IF Falsy(group_by) \/ Falsy(aggregation)
    THEN /\ last' = Call("query", sheet_name, usecols, "error", "ValueError", "",
                         NoDF, NoOut)
         /\ UNCHANGED <<file, suffix, enable_cache, cache, row_count_cache,
                        cache_hits, cache_misses>>
    ELSE LET r == _read_file(sheet_name, usecols, FALSE)
             g == _group_and_aggregate(r.df, group_by, aggregation, aggregate_column)
         IN  /\ CanCount
             /\ Commit(r)
             /\ UNCHANGED file
             /\ last' = IF r.status # "ok"
                        THEN ReadResult("query", sheet_name, usecols, r,
                                        "error", r.err, NoDF, NoOut)
                        ELSE IF ~g.ok
                        THEN ReadResult("query", sheet_name, usecols, r,
                                        "error", g.err, NoDF, NoOut)
                        ELSE ReadResult("query", sheet_name, usecols, r,
                                        "ok", "", NoDF,
                                        [data |-> <<g.columns, g.vals>>,
                                         aggregation |-> aggregation,
                                         grouped_by |-> group_by])

\* get_row_count that loads the sheet through _read_file and counts its rows
GetRowCountViaRead(sheet_name) ==
    LET r == _read_file(sheet_name, UseNone, FALSE)
    IN  /\ CanCount
        /\ Commit(r)
        /\ UNCHANGED file
        /\ last' = Call("get_row_count", sheet_name, UseNone, r.status, r.err, "",
                        NoDF, [data |-> <<>>, rows |-> r.df.rows, columns |-> 0])

\* get_row_count that returns the cached count whatever the file's
\* modification time
GetRowCountKeepStale(sheet_name) ==
    LET cache_key == SheetKey(sheet_name)
        sheet == SheetRead(sheet_name)
        result(status, err, count) ==
            Call("get_row_count", sheet_name, UseNone, status, err, "", NoDF,
                 [data |-> <<>>, rows |-> count, columns |-> 0])
        entry == [key |-> cache_key, count |-> FileRows(sheet, file.mtime),
                  mtime |-> file.mtime]
    IN  IF enable_cache /\ HasKey(row_count_cache, cache_key)
        THEN /\ last' = result("ok", "", Get(row_count_cache, cache_key).count)
             /\ UNCHANGED <<file, suffix, enable_cache, cache, row_count_cache,
                            cache_hits, cache_misses>>
        ELSE IF suffix \notin {".xlsx", ".xls", ".csv"} \/ sheet = ""
        THEN /\ last' = result("error",
                               IF suffix \notin {".xlsx", ".xls", ".csv"}
                               THEN "ValueError" ELSE "KeyError", 0)
             /\ UNCHANGED <<file, suffix, enable_cache, cache, row_count_cache,
                            cache_hits, cache_misses>>
        ELSE /\ last' = result("ok", "", entry.count)
             /\ row_count_cache' = IF enable_cache THEN SetItem(row_count_cache, entry)
                                   ELSE row_count_cache
             /\ UNCHANGED <<file, suffix, enable_cache, cache, cache_hits, cache_misses>>

\* ExcelReader.get_row_count
GetRowCountCall(sheet_name) ==
    LET cache_key == SheetKey(sheet_name)
        sheet == SheetRead(sheet_name)
        result(status, err, count) ==
            Call("get_row_count", sheet_name, UseNone, status, err, "", NoDF,
                 [data |-> <<>>, rows |-> count, columns |-> 0])
        entry == [key |-> cache_key, count |-> FileRows(sheet, file.mtime),
                  mtime |-> file.mtime]
    IN  IF /\ enable_cache
           /\ HasKey(row_count_cache, cache_key)
           /\ Get(row_count_cache, cache_key).mtime = file.mtime
        THEN /\ last' = result("ok", "", Get(row_count_cache, cache_key).count)
             /\ UNCHANGED <<file, suffix, enable_cache, cache, row_count_cache,
                            cache_hits, cache_misses>>
        ELSE IF suffix \notin {".xlsx", ".xls", ".csv"} \/ sheet = ""
        THEN /\ last' = result("error",
                               IF suffix \notin {".xlsx", ".xls", ".csv"}
                               THEN "ValueError" ELSE "KeyError", 0)
             /\ UNCHANGED <<file, suffix, enable_cache, cache, row_count_cache,
                            cache_hits, cache_misses>>
        ELSE /\ last' = result("ok", "", entry.count)
             /\ row_count_cache' = IF enable_cache THEN SetItem(row_count_cache, entry)
                                   ELSE row_count_cache
             /\ UNCHANGED <<file, suffix, enable_cache, cache, cache_hits, cache_misses>>

\* the caller of _read_file overwrites the cells of the DataFrame it was handed;
\* every holder of that object sees the write
CallerMutate ==
    LET Written(df) ==
            IF df.id = last.df.id
            THEN [df EXCEPT !.cols = [i \in 1..Len(df.cols) |->
                                         [df.cols[i] EXCEPT !.val = MutatedVal]]]
            ELSE df
    IN  /\ last.op = "_read_file"
        /\ last.status = "ok"
        /\ \E i \in 1..Len(last.df.cols) : last.df.cols[i].val # MutatedVal
        /\ last' = [last EXCEPT !.df = Written(last.df)]
        /\ cache' = [k \in 1..Len(cache) |-> [cache[k] EXCEPT !.df = Written(cache[k].df)]]
        /\ UNCHANGED <<file, suffix, enable_cache, row_count_cache,
                       cache_hits, cache_misses>>

\* clear_cache that empties the data cache only
ClearDataCacheOnly ==
    /\ cache' = <<>>
    /\ last' = Call("clear_cache", NoneVal, UseNone, "ok", "", "", NoDF,
                    [success |-> TRUE, cleared |-> Len(cache)])
    /\ UNCHANGED <<file, suffix, enable_cache, row_count_cache,
                   cache_hits, cache_misses>>

\* ExcelReader.clear_cache; cleared is the count its message reports
ClearCacheCall ==
    /\ cache' = <<>>
    /\ row_count_cache' = <<>>
    /\ cache_hits' = 0
    /\ cache_misses' = 0
    /\ last' = Call("clear_cache", NoneVal, UseNone, "ok", "", "", NoDF,
                    [success |-> TRUE,
                     cleared |-> Len(cache) + Len(row_count_cache)])
    /\ UNCHANGED <<file, suffix, enable_cache>>

\* round(hit_rate * 100, 2), in hundredths of a percent
HitRate(hits, total) ==
    IF total > 0 THEN (hits * 20000 + total) \div (2 * total) ELSE 0

\* ExcelReader.get_cache_info, without the memory estimates
GetCacheInfoCall ==
    /\ last' = Call("get_cache_info", NoneVal, UseNone, "ok", "", "", NoDF,
                    [success |-> TRUE,
                     data_cache_count |-> Len(cache),
                     row_count_cache_count |-> Len(row_count_cache),
                     total_cache_entries |-> Len(cache) + Len(row_count_cache),
                     max_cache_size |-> max_cache_size,
                     cache_hits |-> cache_hits,
                     cache_misses |-> cache_misses,
                     total_requests |-> cache_hits + cache_misses,
                     hit_rate |-> HitRate(cache_hits, cache_hits + cache_misses)])
    /\ UNCHANGED <<file, suffix, enable_cache, cache, row_count_cache,
                   cache_hits, cache_misses>>

-----------------------------------------------------------------------------
(* The environment: the file is rewritten *)

ModifyFile(cols) ==
    /\ Events < MaxCalls
    /\ file' = [mtime |-> file.mtime + 1, cols |-> cols]
    /\ UNCHANGED <<suffix, enable_cache, cache, row_count_cache,
                   cache_hits, cache_misses, last>>

-----------------------------------------------------------------------------

\* The threads that call the manager, and the canonical paths they ask for
Threads == {"t1", "t2"}
NoThread == "<no thread>"
Paths == {"p", "q", "r"}

\* the path whose file is written or removed while the manager runs
Changing == {"p"}

\* st_mtime of a path whose file does not exist
Missing == -1

\* last, after a step of the manager that returns nothing to a caller
NoReturn == [op |-> "manager"]

\* last, after the step in which get_reader returns to thread t: reader is the
\* ExcelReader returned (0 when the call raised), old the reader that was
\* registered for the path when the call looked it up (0 when there was none),
\* evicted the readers that the step removed from the registry
Returned(t, path, reader, old, status) ==
    [op |-> "get_reader", thread |-> t, path |-> path, asked |-> threads[t].path,
     reader |-> reader, old |-> old, status |-> status,
     evicted |-> {_readers[i].reader : i \in 1..Len(_readers)}
                 \ {_readers'[i].reader : i \in 1..Len(_readers')}]

\* a thread outside get_reader
Idle == [pc |-> "idle", path |-> NoneVal, now |-> 0, old |-> 0]

\* a thread that is not in _read_file
NoCall == [pc |-> "idle", sheet |-> NoneVal, usecols |-> [kind |-> "none"],
           kind |-> "", mtime |-> 0, tmp |-> 0]

\* no call of _read_file is under way on the reader
NoCalls ==
    /\ calls = [t \in Threads |-> NoCall]
    /\ lookups = 0

\* ReaderManager.__init__: no reader registered, counters at zero, lock free;
\* every file exists and was written before the manager started
ManagerInit ==
    /\ _readers = <<>>
    /\ _hits = 0
    /\ _misses = 0
    /\ _lock = NoThread
    /\ clock = 0
    /\ disk = [p \in Paths |-> 0]
    /\ threads = [t \in Threads |-> Idle]
    /\ made = 0
    /\ counted = [calls |-> 0, constructed |-> 0, reused |-> 0, written |-> {},
                  spelled |-> {}]

\* ExcelReader.__init__: the file exists, the caches are empty
Init ==
    /\ file = [mtime |-> 0, cols |-> Columns]
    /\ suffix \in Suffixes
    /\ enable_cache \in BOOLEAN
    /\ cache = <<>>
    /\ row_count_cache = <<>>
    /\ cache_hits = 0
    /\ cache_misses = 0
    /\ last = Call("__init__", NoneVal, UseNone, "ok", "", "", NoDF, NoOut)
    /\ ManagerInit
    /\ NoCalls

Next ==
    \/ \E a \in ReadArgs : ReadFileCall(a[1], a[2]) /\ UNCHANGED <<mvars, cvars>>
    \/ \E a \in ReadArgs : ReadFileVanished(a[1], a[2]) /\ UNCHANGED <<mvars, cvars>>
    \/ \E a \in ReadCallArgs : ReadCall(a[1], a[2]) /\ UNCHANGED <<mvars, cvars>>
    \/ \E q \in QueryArgs : QueryCall(q[1], q[2], q[3], NoneVal, UseNone) /\ UNCHANGED <<mvars, cvars>>
    \/ \E s \in RowCountArgs : GetRowCountCall(s) /\ UNCHANGED <<mvars, cvars>>
    \/ CallerMutate /\ UNCHANGED <<mvars, cvars>>
    \/ ClearCacheCall /\ UNCHANGED <<mvars, cvars>>
    \/ GetCacheInfoCall /\ UNCHANGED <<mvars, cvars>>
    \/ \E c \in ColumnSets : ModifyFile(c) /\ UNCHANGED <<mvars, cvars>>

Spec == Init /\ [][Next]_vars

-----------------------------------------------------------------------------
(* _parse_usecols and _normalize_cache_key applied to pairs of selections: *)
(* last records the two selections and the keys computed for them.         *)

\* the longest list of column names normalized
MaxLen == 2

NameLists == UNION {[1..n -> Columns] : n \in 0..MaxLen}
KeySheets == {NoneVal, "", "Sheet1", "Sheet2"}
KeyTexts == {<<"A">>, <<"A", ",", "B">>, <<"B", ",", " ", "A">>, <<",", " ">>,
             <<"A", ":", "C">>, <<"A", ",", "A">>}
KeySelections ==
    {UseList(n) : n \in NameLists} \cup {UseStr(t) : t \in KeyTexts}
        \cup {UseNone, UseInts(<<0>>), UseInts(<<2, 0>>)}

NormalizeKeys(sheet_name, a, b) ==
    /\ last' = [op |-> "_normalize_cache_key", sheet |-> sheet_name,
                a |-> _parse_usecols(a), b |-> _parse_usecols(b),
                key_a |-> _normalize_cache_key(sheet_name, _parse_usecols(a)),
                key_b |-> _normalize_cache_key(sheet_name, _parse_usecols(b))]
    /\ UNCHANGED <<file, suffix, enable_cache, cache, row_count_cache,
                   cache_hits, cache_misses>>

KeyInit ==
    /\ file = [mtime |-> 0, cols |-> Columns]
    /\ suffix = ".xlsx"
    /\ enable_cache = TRUE
    /\ cache = <<>>
    /\ row_count_cache = <<>>
    /\ cache_hits = 0
    /\ cache_misses = 0
    /\ last = Call("__init__", NoneVal, UseNone, "ok", "", "", NoDF, NoOut)
    /\ ManagerInit
    /\ NoCalls

KeyNext == \E s \in KeySheets : \E a \in KeySelections : \E b \in KeySelections :
               NormalizeKeys(s, a, b) /\ UNCHANGED <<mvars, cvars>>

KeySpec == KeyInit /\ [][KeyNext]_vars

-----------------------------------------------------------------------------
(* query on the rows of a dataset.  The dataset has the columns "A" (str,  *)
(* NaN where the cell is empty) and "B" (int); a row is a record [A, B].   *)
(* last records the arguments of the call and its result before the sort   *)
(* and the limit: the rows <<label, value>> of the aggregated DataFrame.   *)

\* the most rows a dataset has
MaxRows == 3

NaN == "<NaN>"
Labels == {"east", "west"}
\* the labels in the order groupby sorts them
LabelOrder == <<"east", "west">>
Amounts == {5, 10, 20}
RowValues == [A : Labels \cup {NaN}, B : Amounts]
Datasets == UNION {[1..n -> RowValues] : n \in 0..MaxRows}

\* df[col] <op> val for the cell of row r; a comparison with NaN is False,
\* != is True
Compare(r, col, op, val) ==
    IF col = "A" /\ r.A = NaN THEN op = "!="
    ELSE CASE op = "=" -> r[col] = val
           [] op = "!=" -> r[col] # val
           [] op = ">" -> r[col] > val
           [] op = "<" -> r[col] < val
           [] op = ">=" -> r[col] >= val
           [] op = "<=" -> r[col] <= val

\* _apply_filters in which a clause on a column the dataset lacks matches no row
RECURSIVE ApplyFiltersStrict(_, _)
ApplyFiltersStrict(rows, filters) ==
    IF filters = <<>> THEN rows
    ELSE LET f == Head(filters)
             kept == IF f.column \notin {"A", "B"} THEN <<>>
                     ELSE IF f.operator \notin {"=", "!=", ">", "<", ">=", "<="}
                     THEN rows
                     ELSE SelectSeq(rows, LAMBDA r : Compare(r, f.column, f.operator,
                                                             f.value))
         IN  ApplyFiltersStrict(kept, Tail(filters))

\* ExcelReader._apply_filters, for the comparison operators
RECURSIVE _apply_filters(_, _)
_apply_filters(rows, filters) ==
    IF filters = <<>> THEN rows
    ELSE LET f == Head(filters)
             kept == IF f.column \notin {"A", "B"} THEN rows
                     ELSE IF f.operator \notin {"=", "!=", ">", "<", ">=", "<="}
                     THEN rows
                     ELSE SelectSeq(rows, LAMBDA r : Compare(r, f.column, f.operator,
                                                             f.value))
         IN  _apply_filters(kept, Tail(filters))

\* the DataFrame of a dataset, as _read_file returns it
RowsFrame(rows) ==
    [id |-> CallerId, cols |-> MakeColumns(<<"A", "B">>, "Sheet1", 0), rows |-> Len(rows)]

RECURSIVE SumOf(_)
SumOf(values) == IF values = <<>> THEN 0 ELSE Head(values) + SumOf(Tail(values))

RECURSIVE CellsOf(_, _)
CellsOf(rows, col) ==
    IF rows = <<>> THEN <<>> ELSE <<Head(rows)[col]>> \o CellsOf(Tail(rows), col)

\* Reduce with the size of the group for every reduction
ReduceSizeOnly(func, group, col) == Len(group)

\* groupby(...).size() / [col].agg(func) for one group: size and sum are
\* computed, the other reductions are left as [func, values]
Reduce(func, group, col) ==
    IF func = "size" THEN Len(group)
    ELSE IF func = "sum" THEN SumOf(CellsOf(group, col))
    ELSE [func |-> func, values |-> CellsOf(group, col)]

\* the keys of df.groupby(group_by): the distinct labels, sorted; rows whose
\* key is NaN belong to no group
GroupKeys(rows, group_by) ==
    SelectSeq(LabelOrder, LAMBDA g : \E i \in 1..Len(rows) : rows[i][group_by] = g)

RECURSIVE GroupRows(_, _, _, _, _)
GroupRows(rows, keys, group_by, func, col) ==
    IF keys = <<>> THEN <<>>
    ELSE <<<<Head(keys),
             Reduce(func, SelectSeq(rows, LAMBDA r : r[group_by] = Head(keys)), col)>>>>
         \o GroupRows(rows, Tail(keys), group_by, func, col)

\* ExcelReader._group_and_aggregate on the rows of a dataset: the outcome of
\* _group_and_aggregate with, in rows, the rows of the result
AggregateRows(rows, group_by, aggregation, aggregate_column) ==
    LET g == _group_and_aggregate(RowsFrame(rows), group_by, aggregation,
                                  aggregate_column)
    IN  [ok |-> g.ok, err |-> g.err, columns |-> g.columns,
         rows |-> IF g.ok
                  THEN GroupRows(rows, GroupKeys(rows, group_by), group_by,
                                 g.vals[2].agg, aggregate_column)
                  ELSE <<>>]

\* the filters, aggregations and aggregate columns the calls are made with
FilterArgs == {<<>>,
               <<[column |-> "B", operator |-> ">", value |-> 5]>>,
               <<[column |-> "A", operator |-> "=", value |-> "east"],
                 [column |-> "Z", operator |-> "=", value |-> 0]>>,
               <<[column |-> "Z", operator |-> "!=", value |-> 0],
                 [column |-> "B", operator |-> ">", value |-> 5]>>}
AggregationArgs == AggFuncs \cup {"mode"}
ColumnArgs == {NoneVal, "", "B"}
ExampleRows == <<[A |-> "east", B |-> 10], [A |-> "west", B |-> 20],
                 [A |-> "east", B |-> 5]>>

\* the calls made: [op |-> "args", ...] are the arguments of a query call
\* about to be made on a reader whose file holds rows
QueryInput(rows, filters, aggregation, aggregate_column) ==
    [op |-> "args", rows |-> rows, filters |-> filters,
     aggregation |-> aggregation, aggregate_column |-> aggregate_column]

QueryInputs ==
    {QueryInput(rows, f, a, "B") :
         rows \in Datasets, f \in FilterArgs, a \in {"sum", "count", "nunique"}}
    \cup {QueryInput(rows, <<>>, a, c) :
              rows \in {<<>>, ExampleRows}, a \in AggregationArgs, c \in ColumnArgs}

\* query(filters, group_by="A", aggregation, aggregate_column), up to the sort
QueryRows ==
    LET passing == _apply_filters(last.rows, last.filters)
        r == AggregateRows(passing, "A", last.aggregation, last.aggregate_column)
    IN  /\ last.op = "args"
        /\ last' = [op |-> "query", rows |-> last.rows, filters |-> last.filters,
                    passing |-> passing,
                    aggregation |-> last.aggregation,
                    aggregate_column |-> last.aggregate_column,
                    status |-> IF r.ok THEN "ok" ELSE "error", err |-> r.err,
                    columns |-> r.columns, result |-> r.rows]
        /\ UNCHANGED <<file, suffix, enable_cache, cache, row_count_cache,
                       cache_hits, cache_misses>>

AggInit ==
    /\ file = [mtime |-> 0, cols |-> Columns]
    /\ suffix = ".xlsx"
    /\ enable_cache = TRUE
    /\ cache = <<>>
    /\ row_count_cache = <<>>
    /\ cache_hits = 0
    /\ cache_misses = 0
    /\ last \in QueryInputs
    /\ ManagerInit
    /\ NoCalls

AggNext == QueryRows /\ UNCHANGED <<mvars, cvars>>

AggSpec == AggInit /\ [][AggNext]_vars

-----------------------------------------------------------------------------
(* data_analysis_agent.core.reader_manager.ReaderManager: the registry of  *)
(* ExcelReader objects (an OrderedDict, first = least recently handed      *)
(* out), its hit and miss counters, and the one lock that get_reader,      *)
(* clear and get_stats take.  Time is counted in ticks of the clock; a     *)
(* reader is identified by the number of its construction.  get_reader is  *)
(* three steps of the calling thread: it takes the lock, looks the path up *)
(* (and returns on a hit), and otherwise constructs a reader and returns.  *)

\* self.max_readers of the manager under study (5 in the program)
max_readers == 2

\* self.idle_timeout of the manager under study, in ticks (300 s in the program)
idle_timeout == 1

\* the clock stops at MaxClock
MaxClock == 2

\* get_reader is called at most MaxRequests times in one run
MaxRequests == 3

\* del d[k]
Del(d, k) == SelectSeq(d, LAMBDA e : e.key # k)

\* a manager that takes no file for modified
FileNeverModified(file_path, last_used) == FALSE

\* st_mtime of the file a spelling names, as the file system finds it, or
\* Missing
OnDisk(file_path) == disk[IF file_path = "./p" THEN "p" ELSE file_path]

\* ReaderManager._is_file_modified
_is_file_modified(file_path, last_used) ==
    IF OnDisk(file_path) = Missing THEN TRUE ELSE OnDisk(file_path) > last_used

\* _cleanup_if_needed without its first loop
IdleKept(d, current_time) == d

\* _cleanup_if_needed, first loop: the readers idle for more than idle_timeout go
IdleRemoved(d, current_time) ==
    SelectSeq(d, LAMBDA e : ~(current_time - e.last_used > idle_timeout))

\* _cleanup_if_needed, second loop: the oldest go until there is room for one
RECURSIVE OldestRemoved(_)
OldestRemoved(d) == IF Len(d) >= max_readers THEN OldestRemoved(Tail(d)) ELSE d

\* _cleanup_if_needed without its second loop
CleanupIdleOnly(d, current_time) == IdleRemoved(d, current_time)

\* ReaderManager._cleanup_if_needed
_cleanup_if_needed(d, current_time) == OldestRemoved(IdleRemoved(d, current_time))

\* the spelling of a path taken for its canonical form
SpellingAsIs(file_path) == file_path

\* str(Path(file_path).resolve()): the canonical path of a spelling
resolve(file_path) == IF file_path = "./p" THEN "p" ELSE file_path

\* get_reader, up to "with self._lock": the path is made canonical
GetReaderBegin(t, file_path) ==
    /\ threads[t].pc = "idle"
    /\ counted.calls < MaxRequests
    /\ counted' = [counted EXCEPT !.calls = @ + 1,
                                  !.spelled = @ \cup ({file_path} \ {resolve(file_path)})]
    /\ threads' = [threads EXCEPT ![t] =
                      [pc |-> "waiting", path |-> file_path, now |-> 0, old |-> 0]]
    /\ last' = NoReturn
    /\ UNCHANGED <<rvars, _readers, _hits, _misses, _lock, clock, disk,
                   made>>

\* a lock that is handed to every thread that asks
LockIgnored == TRUE

\* the lock as the program takes it: only when no thread holds it
LockFree == _lock = NoThread

\* with self._lock: __enter__
GetReaderAcquire(t) ==
    /\ threads[t].pc = "waiting"
    /\ LockFree
    /\ _lock' = t
    /\ threads' = [threads EXCEPT ![t].pc = "locked"]
    /\ last' = NoReturn
    /\ UNCHANGED <<rvars, _readers, _hits, _misses, clock, disk,
                   made, counted>>

\* with self._lock: __exit__, by thread t
Released(t) == IF _lock = t THEN NoThread ELSE _lock

\* get_reader, from current_time = time.time() to the end of the lookup:
\* a registered reader of an unmodified file is returned; otherwise the
\* thread goes on to construct one
GetReaderLookup(t) ==
    LET normalized_path == resolve(threads[t].path)
        current_time == clock
        registered == HasKey(_readers, normalized_path)
        entry == Get(_readers, normalized_path)
    IN  /\ threads[t].pc = "locked"
        /\ IF registered /\ ~_is_file_modified(threads[t].path, entry.last_used)
           THEN /\ _readers' = SetItem(MoveToEnd(_readers, normalized_path),
                                       [entry EXCEPT !.last_used = current_time])
                /\ _hits' = _hits + 1
                /\ counted' = [counted EXCEPT !.reused = @ + 1,
                                              !.written = @ \ {normalized_path}]
                /\ _lock' = Released(t)
                /\ threads' = [threads EXCEPT ![t] = Idle]
                /\ last' = Returned(t, normalized_path, entry.reader,
                                    entry.reader, "ok")
                /\ UNCHANGED _misses
           ELSE /\ _readers' = IF registered THEN Del(_readers, normalized_path)
                                             ELSE _readers
                /\ _misses' = IF registered THEN _misses + 1 ELSE _misses
                /\ threads' = [threads EXCEPT
                                  ![t].pc = "create",
                                  ![t].now = current_time,
                                  ![t].old = IF registered THEN entry.reader ELSE 0]
                /\ last' = NoReturn
                /\ UNCHANGED <<_hits, counted, _lock>>
        /\ UNCHANGED <<rvars, clock, disk, made>>

\* get_reader, from "self._misses += 1" to the end: the registry is cleaned,
\* ExcelReader(file_path) is constructed (it raises when the file does not
\* exist) and registered, and the lock is released
GetReaderCreate(t) ==
    LET normalized_path == resolve(threads[t].path)
        cleaned == _cleanup_if_needed(_readers, clock)
        reader == made + 1
    IN  /\ threads[t].pc = "create"
        /\ _misses' = _misses + 1
        /\ _lock' = Released(t)
        /\ threads' = [threads EXCEPT ![t] = Idle]
        /\ IF OnDisk(threads[t].path) = Missing
           THEN /\ _readers' = cleaned
                /\ last' = Returned(t, normalized_path, 0, threads[t].old,
                                    "FileNotFoundError")
                /\ counted' = [counted EXCEPT !.constructed = @ + 1]
                /\ UNCHANGED made
           ELSE /\ _readers' = SetItem(cleaned,
                                       [key |-> normalized_path, reader |-> reader,
                                        last_used |-> threads[t].now])
                /\ made' = reader
                /\ counted' = [counted EXCEPT !.constructed = @ + 1,
                                              !.written = @ \ {normalized_path}]
                /\ last' = Returned(t, normalized_path, reader, threads[t].old, "ok")
        /\ UNCHANGED <<rvars, _hits, clock, disk>>

\* ReaderManager.clear(file_path) with a path
ClearPath(file_path) ==
    /\ LockFree
    /\ HasKey(_readers, file_path)
    /\ _readers' = Del(_readers, file_path)
    /\ last' = NoReturn
    /\ UNCHANGED <<rvars, _hits, _misses, _lock, clock, disk, threads,
                   made, counted>>

\* ReaderManager.clear() without a path
ClearAll ==
    /\ LockFree
    /\ _readers # <<>> \/ _hits + _misses > 0
    /\ _readers' = <<>>
    /\ _hits' = 0
    /\ _misses' = 0
    /\ counted' = [counted EXCEPT !.constructed = 0, !.reused = 0]
    /\ last' = NoReturn
    /\ UNCHANGED <<rvars, _lock, clock, disk, threads, made>>

\* ReaderManager.get_stats, without the per-reader details
GetStats ==
    /\ LockFree
    /\ last' = [op |-> "get_stats",
                total_readers |-> Len(_readers),
                max_readers |-> max_readers,
                manager_hits |-> _hits,
                manager_misses |-> _misses,
                manager_hit_rate |-> HitRate(_hits, _hits + _misses)]
    /\ UNCHANGED <<rvars, mvars>>

\* time passes
Tick ==
    /\ clock < MaxClock
    /\ clock' = clock + 1
    /\ last' = NoReturn
    /\ UNCHANGED <<rvars, _readers, _hits, _misses, _lock, disk, threads,
                   made, counted>>

\* the file of a path is written: its st_mtime becomes the time of the write
RewriteFile(file_path) ==
    /\ disk[file_path] # clock
    /\ disk' = [disk EXCEPT ![file_path] = clock]
    /\ counted' = [counted EXCEPT !.written = @ \cup {file_path}]
    /\ last' = NoReturn
    /\ UNCHANGED <<rvars, _readers, _hits, _misses, _lock, clock, threads,
                   made>>

\* the file of a path is removed
DeleteFile(file_path) ==
    /\ disk[file_path] # Missing
    /\ disk' = [disk EXCEPT ![file_path] = Missing]
    /\ counted' = [counted EXCEPT !.written = @ \cup {file_path}]
    /\ last' = NoReturn
    /\ UNCHANGED <<rvars, _readers, _hits, _misses, _lock, clock, threads,
                   made>>

\* the ExcelReader under study plays no part: it is as constructed
ManagerSpecInit ==
    /\ file = [mtime |-> 0, cols |-> Columns]
    /\ suffix = ".xlsx"
    /\ enable_cache = TRUE
    /\ cache = <<>>
    /\ row_count_cache = <<>>
    /\ cache_hits = 0
    /\ cache_misses = 0
    /\ last = NoReturn
    /\ ManagerInit
    /\ NoCalls

ManagerNext ==
    \/ \E t \in Threads : \E p \in Paths : GetReaderBegin(t, p) /\ UNCHANGED cvars
    \/ \E t \in Threads : GetReaderAcquire(t) /\ UNCHANGED cvars
    \/ \E t \in Threads : GetReaderLookup(t) /\ UNCHANGED cvars
    \/ \E t \in Threads : GetReaderCreate(t) /\ UNCHANGED cvars
    \/ \E p \in Paths : ClearPath(p) /\ UNCHANGED cvars
    \/ ClearAll /\ UNCHANGED cvars
    \/ GetStats /\ UNCHANGED cvars
    \/ Tick /\ UNCHANGED cvars
    \/ \E p \in Changing : RewriteFile(p) /\ UNCHANGED cvars
    \/ \E p \in Changing : DeleteFile(p) /\ UNCHANGED cvars

ManagerSpec == ManagerSpecInit /\ [][ManagerNext]_vars

-----------------------------------------------------------------------------
(* Concurrent calls of _read_file on one ExcelReader.  The reader has no   *)
(* lock: a call is a sequence of steps of its thread, and the steps of two *)
(* calls, and rewrites of the file, interleave.  The steps are             *)
(*   ReadBegin    the arguments are parsed and the key computed;           *)
(*   ReadLookup   st_mtime is read and the cache looked up; on a hit the   *)
(*                entry is moved or the slice stored; the counter to be    *)
(*                incremented is read (the load of "+= 1");                *)
(*   ReadCount    the counter is written back (the store of "+= 1"); a hit *)
(*                returns;                                                 *)
(*   ReadDecode   after a miss, the file is decoded as it is now, the      *)
(*                result stored with the modification time read in         *)
(*                ReadLookup, and the call returns.                        *)

\* _read_file is called at most MaxReads times in one run
MaxReads == 3

\* the selections the concurrent calls ask for
RaceArgs == {<<NoneVal, UseNone>>, <<NoneVal, UseList(<<"A">>)>>}

\* the threads between the load and the store of a counter
Counting == {t \in Threads : calls[t].pc \in {"hit", "miss"}}

\* the calls begun and not yet through their lookup
Pending == {t \in Threads : calls[t].pc \in {"lookup", "hit", "miss"}}

ReadBegin(t, sheet_name, usecols) ==
    /\ calls[t].pc = "idle"
    /\ lookups + Cardinality(Pending) < MaxReads
    /\ calls' = [calls EXCEPT ![t] = [NoCall EXCEPT !.pc = "lookup",
                                                     !.sheet = sheet_name,
                                                     !.usecols = usecols]]
    /\ UNCHANGED <<rvars, last, lookups>>

ReadLookup(t) ==
    LET r == _read_file(calls[t].sheet, calls[t].usecols, FALSE)
        hit == r.kind \in {"exact", "derived"}
    IN  /\ calls[t].pc = "lookup"
        /\ cache' = IF hit THEN r.cache ELSE cache
        /\ calls' = [calls EXCEPT ![t].pc = IF hit THEN "hit" ELSE "miss",
                                  ![t].kind = r.kind,
                                  ![t].mtime = file.mtime,
                                  ![t].tmp = IF hit THEN cache_hits ELSE cache_misses]
        /\ UNCHANGED <<file, suffix, enable_cache, row_count_cache,
                       cache_hits, cache_misses, last, lookups>>

\* what a call of thread t hands back
ReadReturn(t, status) ==
    [op |-> "_read_file", thread |-> t, sheet |-> calls[t].sheet,
     usecols |-> calls[t].usecols, kind |-> calls[t].kind,
     mtime |-> calls[t].mtime, status |-> status]

ReadCount(t) ==
    /\ calls[t].pc \in {"hit", "miss"}
    /\ lookups' = lookups + 1
    /\ IF calls[t].pc = "hit"
       THEN /\ cache_hits' = calls[t].tmp + 1
            /\ calls' = [calls EXCEPT ![t] = NoCall]
            /\ last' = ReadReturn(t, "ok")
            /\ UNCHANGED cache_misses
       ELSE /\ cache_misses' = calls[t].tmp + 1
            /\ calls' = [calls EXCEPT ![t].pc = "decode"]
            /\ UNCHANGED <<cache_hits, last>>
    /\ UNCHANGED <<file, suffix, enable_cache, cache, row_count_cache>>

\* the modification time read again when the result is stored
StatAtStore(t) == file.mtime

\* the modification time stored with the result: mtime, read before the lookup
StoredTime(t) == calls[t].mtime

ReadDecode(t) ==
    LET parsed == _parse_usecols(calls[t].usecols)
        cache_key == _normalize_cache_key(calls[t].sheet, parsed)
        r == DecodeAndStore(calls[t].sheet, parsed, cache_key, "miss",
                            cache_misses, StoredTime(t), FALSE)
    IN  /\ calls[t].pc = "decode"
        /\ cache' = r.cache
        /\ calls' = [calls EXCEPT ![t] = NoCall]
        /\ last' = ReadReturn(t, r.status)
        /\ UNCHANGED <<file, suffix, enable_cache, row_count_cache,
                       cache_hits, cache_misses, lookups>>

\* the file is rewritten while calls are under way
RaceModifyFile ==
    /\ ModifyFile(Columns)
    /\ UNCHANGED cvars

RaceInit ==
    /\ file = [mtime |-> 0, cols |-> Columns]
    /\ suffix = ".xlsx"
    /\ enable_cache = TRUE
    /\ cache = <<>>
    /\ row_count_cache = <<>>
    /\ cache_hits = 0
    /\ cache_misses = 0
    /\ last = Call("__init__", NoneVal, UseNone, "ok", "", "", NoDF, NoOut)
    /\ ManagerInit
    /\ NoCalls

RaceNext ==
    \/ \E t \in Threads : \E a \in RaceArgs : ReadBegin(t, a[1], a[2]) /\ UNCHANGED mvars
    \/ \E t \in Threads : ReadLookup(t) /\ UNCHANGED mvars
    \/ \E t \in Threads : ReadCount(t) /\ UNCHANGED mvars
    \/ \E t \in Threads : ReadDecode(t) /\ UNCHANGED mvars
    \/ RaceModifyFile /\ UNCHANGED mvars

RaceSpec == RaceInit /\ [][RaceNext]_vars

-----------------------------------------------------------------------------
(* query from the aggregation on: the sort and the limit.  The aggregated   *)
(* DataFrame is the sequence of its rows <<label, value>>; its columns are  *)
(* the group column and the value column.                                   *)

\* the default of query's limit
DefaultLimit == 100

\* the position of a column of the aggregated DataFrame
ColumnIndex(columns, name) == CHOOSE i \in 1..Len(columns) : columns[i] = name

\* the rank of a row in the order sort_values compares by: in the group
\* column (the first) labels alphabetically, in the value column numbers by
\* value
Rank(row, col) ==
    IF col = 1 THEN CHOOSE i \in 1..Len(LabelOrder) : LabelOrder[i] = row[1]
    ELSE row[col]

\* row a may come before row b in the sorted output
InOrder(a, b, col, ascending) ==
    IF ascending THEN Rank(a, col) <= Rank(b, col) ELSE Rank(a, col) >= Rank(b, col)

Orderings(n) == {p \in [1..n -> 1..n] : \A i, j \in 1..n : p[i] = p[j] => i = j}

\* df.sort_values(by=..., ascending=...) with the default kind, quicksort,
\* which is not stable: every arrangement of the rows in key order is a
\* possible result
sort_values(rows, col, ascending) ==
    {[i \in 1..Len(rows) |-> rows[p[i]]] : p \in
         {q \in Orderings(Len(rows)) :
              \A i \in 1..(Len(rows) - 1) : InOrder(rows[q[i]], rows[q[i+1]], col, ascending)}}

\* sort_values with kind="stable": rows of equal key keep their order
StableSort(rows, col, ascending) ==
    LET p == CHOOSE q \in Orderings(Len(rows)) :
                 \A i \in 1..(Len(rows) - 1) :
                     /\ InOrder(rows[q[i]], rows[q[i+1]], col, ascending)
                     /\ Rank(rows[q[i]], col) = Rank(rows[q[i+1]], col) => q[i] < q[i+1]
    IN  [i \in 1..Len(rows) |-> rows[p[i]]]

\* df.head(n)
HeadRows(rows, n) ==
    IF n >= 0 THEN SubSeq(rows, 1, IF n < Len(rows) THEN n ELSE Len(rows))
    ELSE SubSeq(rows, 1, IF Len(rows) + n > 0 THEN Len(rows) + n ELSE 0)

\* the sort of query: only when order_by names a column of the aggregated output
SortedOutputs(rows, columns, order_by, order) ==
    IF ~Falsy(order_by) /\ order_by \in Range(columns)
    THEN sort_values(rows, ColumnIndex(columns, order_by), order = "asc")
    ELSE {rows}

\* the limit applied to the aggregated output, and the sort after it
HeadThenSort(rows, columns, order_by, order, limit) ==
    {[sorted |-> s, result |-> s] :
         s \in SortedOutputs(HeadRows(rows, limit), columns, order_by, order)}

\* query, lines 195-199: the sort, then the limit; the possible results
SortThenHead(rows, columns, order_by, order, limit) ==
    {[sorted |-> s, result |-> HeadRows(s, limit)] :
         s \in SortedOutputs(rows, columns, order_by, order)}

OrderByArgs == {NoneVal, "A", "B", "Z"}
OrderArgs == {"asc", "desc"}
LimitArgs == {0, 1, DefaultLimit}

\* the arguments of a query call about to be made on a reader whose file
\* holds rows, for the files in datasets
SortInputs(datasets) ==
    {[op |-> "args", rows |-> rows, aggregation |-> a, aggregate_column |-> "B",
      order_by |-> by, order |-> o, limit |-> n] :
         rows \in datasets, a \in {"sum", "count"}, by \in OrderByArgs,
         o \in OrderArgs, n \in LimitArgs}

\* query(group_by="A", aggregation, aggregate_column, order_by, order, limit)
QuerySorted ==
    LET g == AggregateRows(last.rows, "A", last.aggregation, last.aggregate_column)
    IN  /\ last.op = "args"
        /\ g.ok
        /\ \E r \in SortThenHead(g.rows, g.columns, last.order_by, last.order, last.limit) :
               last' = [op |-> "query", rows |-> last.rows,
                        aggregation |-> last.aggregation,
                        order_by |-> last.order_by, order |-> last.order,
                        limit |-> last.limit, status |-> "ok",
                        columns |-> g.columns, aggregated |-> g.rows,
                        sorted |-> r.sorted, result |-> r.result]
        /\ UNCHANGED <<file, suffix, enable_cache, cache, row_count_cache,
                       cache_hits, cache_misses>>

SortInit ==
    /\ file = [mtime |-> 0, cols |-> Columns]
    /\ suffix = ".xlsx"
    /\ enable_cache = TRUE
    /\ cache = <<>>
    /\ row_count_cache = <<>>
    /\ cache_hits = 0
    /\ cache_misses = 0
    /\ last \in SortInputs(Datasets)
    /\ ManagerInit
    /\ NoCalls

SortNext == QuerySorted /\ UNCHANGED <<mvars, cvars>>

SortSpec == SortInit /\ [][SortNext]_vars

-----------------------------------------------------------------------------
(* get_row_count over several sheets of a file that is rewritten.          *)

\* the sheets whose rows are counted; the workbook has no "Sheet9"
CountArgs == {NoneVal, "Sheet1", "Sheet2", "Sheet9"}

CountNext ==
    \/ \E s \in CountArgs : GetRowCountCall(s) /\ UNCHANGED <<mvars, cvars>>
    \/ ModifyFile(Columns) /\ UNCHANGED <<mvars, cvars>>
    \/ ClearCacheCall /\ UNCHANGED <<mvars, cvars>>

CountSpec == Init /\ [][CountNext]_vars

-----------------------------------------------------------------------------
(* read_head and read_tail on a reader whose caches are filled by          *)
(* _read_file and get_row_count and whose file is rewritten.               *)

\* the first or last n rows of a sheet of rows rows, for n >= 0
Take(n, rows) == IF n < rows THEN n ELSE rows

\* what read_head and read_tail hand back for the decode d and n >= 0
PartResult(op, n, sheet_name, usecols, d) ==
    IF ~d.ok
    THEN Call(op, sheet_name, usecols, "error", d.err, "", NoDF, NoOut)
    ELSE Call(op, sheet_name, usecols, "ok", "", "", NoDF,
              [data |-> _df_to_array([id |-> LocalId, cols |-> d.cols,
                                      rows |-> Take(n, d.rows)]),
               rows |-> Take(n, d.rows), columns |-> Len(d.cols)])

\* read_head that takes the rows from the DataFrame _read_file returns
ReadHeadViaCache(n, sheet_name, usecols) ==
    LET r == _read_file(sheet_name, usecols, FALSE)
    IN  /\ CanCount
        /\ Commit(r)
        /\ UNCHANGED file
        /\ last' = PartResult("read_head", n, sheet_name, usecols,
                              [ok |-> r.status = "ok", err |-> r.err,
                               cols |-> r.df.cols, rows |-> r.df.rows])

\* ExcelReader.read_head: pd.read_excel/pd.read_csv with nrows=n, usecols as given
ReadHeadCall(n, sheet_name, usecols) ==
    /\ last' = PartResult("read_head", n, sheet_name, usecols,
                          Decode(sheet_name, usecols, FALSE))
    /\ UNCHANGED <<file, suffix, enable_cache, cache, row_count_cache,
                   cache_hits, cache_misses>>

\* ExcelReader.read_tail: the whole sheet is decoded, then df.tail(n)
ReadTailCall(n, sheet_name, usecols) ==
    /\ last' = PartResult("read_tail", n, sheet_name, usecols,
                          Decode(sheet_name, usecols, FALSE))
    /\ UNCHANGED <<file, suffix, enable_cache, cache, row_count_cache,
                   cache_hits, cache_misses>>

\* the numbers of rows asked for
PartSizes == {0, 1, 10}
\* the sheets and selections read; the file has no column "Z"
PartArgs == {<<NoneVal, UseNone>>, <<NoneVal, UseList(<<"A">>)>>,
             <<"Sheet2", UseNone>>, <<NoneVal, UseList(<<"Z">>)>>}
PartFillArgs == {<<NoneVal, UseNone>>, <<NoneVal, UseList(<<"A">>)>>}

PartNext ==
    \/ \E n \in PartSizes : \E a \in PartArgs : ReadHeadCall(n, a[1], a[2]) /\ UNCHANGED <<mvars, cvars>>
    \/ \E n \in PartSizes : \E a \in PartArgs : ReadTailCall(n, a[1], a[2]) /\ UNCHANGED <<mvars, cvars>>
    \/ \E a \in PartFillArgs : ReadFileCall(a[1], a[2]) /\ UNCHANGED <<mvars, cvars>>
    \/ GetRowCountCall(NoneVal) /\ UNCHANGED <<mvars, cvars>>
    \/ ModifyFile(Columns) /\ UNCHANGED <<mvars, cvars>>

PartSpec == Init /\ [][PartNext]_vars

-----------------------------------------------------------------------------
(* read_parallel_chunks.  calls is the work of the thread pool: one task   *)
(* per chunk, in the order executor.map submitted them, each queued,       *)
(* running on a worker, or done with the chunk it read.  last holds the    *)
(* arguments of the call, then whether a task has finished before an       *)
(* earlier one, then the result.                                           *)

\* the most workers read_parallel_chunks ever asks for
PoolLimit == 8

\* min(num_chunks, 8)
max_workers(num_chunks) == IF num_chunks < PoolLimit THEN num_chunks ELSE PoolLimit

\* skip_rows of task i (1-based), with the number of the task for its offset
SkipRowsByIndex(i, chunksize) == i - 1

\* skip_rows of task i (1-based): i * chunksize for i in range(num_chunks)
SkipRows(i, chunksize) == (i - 1) * chunksize

\* _read_chunk(skip_rows): the data rows [skip_rows, skip_rows + chunksize)
\* the sheet has, or the error of the decode
ReadChunk(skip_rows, chunksize) ==
    LET d == Decode(NoneVal, UseNone, FALSE)
        left == IF d.rows > skip_rows THEN d.rows - skip_rows ELSE 0
    IN  [ok |-> d.ok, err |-> d.err, first |-> skip_rows,
         count |-> IF d.ok THEN Take(chunksize, left) ELSE 0,
         ver |-> file.mtime]

NoChunk == [ok |-> FALSE, err |-> "", first |-> 0, count |-> 0, ver |-> 0]

Queued(i) == calls[i].pc = "queued"
Running == {i \in 1..Len(calls) : calls[i].pc = "running"}
AllDone == \A i \in 1..Len(calls) : calls[i].pc = "done"

\* the call starts: the guard, the pool, and the tasks submitted in order
ChunksBegin ==
    /\ last.op = "args"
    /\ IF ~last.enable_threading \/ last.num_chunks = 0
       THEN /\ last' = [op |-> "read_parallel_chunks", chunksize |-> last.chunksize,
                        num_chunks |-> last.num_chunks, status |-> "error",
                        err |-> "ValueError", overtaken |-> FALSE, result |-> <<>>]
            /\ UNCHANGED calls
       ELSE /\ last' = [op |-> "pool", chunksize |-> last.chunksize,
                        num_chunks |-> last.num_chunks, overtaken |-> FALSE]
            /\ calls' = [i \in 1..last.num_chunks |->
                            [pc |-> "queued",
                             skip_rows |-> SkipRows(i, last.chunksize),
                             chunk |-> NoChunk]]
    /\ UNCHANGED <<rvars, lookups>>

\* an idle worker takes the first task of the queue
WorkerTake(i) ==
    /\ last.op = "pool"
    /\ i \in 1..Len(calls)
    /\ Queued(i)
    /\ \A j \in 1..(i - 1) : ~Queued(j)
    /\ Cardinality(Running) < max_workers(last.num_chunks)
    /\ calls' = [calls EXCEPT ![i].pc = "running"]
    /\ UNCHANGED <<rvars, last, lookups>>

\* a worker finishes its task
WorkerFinish(i) ==
    /\ last.op = "pool"
    /\ i \in Running
    /\ calls' = [calls EXCEPT ![i].pc = "done",
                              ![i].chunk = ReadChunk(calls[i].skip_rows, last.chunksize)]
    /\ last' = [last EXCEPT !.overtaken =
                    last.overtaken \/ \E j \in 1..(i - 1) : calls[j].pc # "done"]
    /\ UNCHANGED <<rvars, lookups>>

\* list(executor.map(...)): the results in the order of the tasks; the first
\* failed task's exception is raised
ChunksReturn ==
    /\ last.op = "pool"
    /\ AllDone
    /\ last' = [op |-> "read_parallel_chunks", chunksize |-> last.chunksize,
                num_chunks |-> last.num_chunks,
                status |-> IF \A i \in 1..Len(calls) : calls[i].chunk.ok
                           THEN "ok" ELSE "error",
                err |-> IF \A i \in 1..Len(calls) : calls[i].chunk.ok THEN ""
                        ELSE calls[CHOOSE i \in 1..Len(calls) :
                                       /\ ~calls[i].chunk.ok
                                       /\ \A j \in 1..(i-1) : calls[j].chunk.ok].chunk.err,
                overtaken |-> last.overtaken,
                result |-> IF \A i \in 1..Len(calls) : calls[i].chunk.ok
                           THEN [i \in 1..Len(calls) |-> calls[i].chunk] ELSE <<>>]
    /\ calls' = <<>>
    /\ UNCHANGED <<rvars, lookups>>

ChunkSizes == {1, 2}
ChunkCounts == {0, 1, 2, 3, PoolLimit + 1}

\* the arguments of a call about to be made, on a reader constructed with
\* enable_threading, for chunk sizes in sizes
ChunkInputs(sizes) ==
    {[op |-> "args", chunksize |-> c, num_chunks |-> n, enable_threading |-> e] :
         c \in sizes, n \in ChunkCounts, e \in BOOLEAN}

\* the reader is constructed on a file that has been written up to MaxCalls times
ChunkInit ==
    /\ file \in [mtime : 0..MaxCalls, cols : {Columns}]
    /\ suffix \in Suffixes
    /\ enable_cache = TRUE
    /\ cache = <<>>
    /\ row_count_cache = <<>>
    /\ cache_hits = 0
    /\ cache_misses = 0
    /\ last \in ChunkInputs(ChunkSizes)
    /\ ManagerInit
    /\ calls = <<>>
    /\ lookups = 0

ChunkNext ==
    \/ ChunksBegin /\ UNCHANGED mvars
    \/ \E i \in 1..(PoolLimit + 1) : WorkerTake(i) /\ UNCHANGED mvars
    \/ \E i \in 1..(PoolLimit + 1) : WorkerFinish(i) /\ UNCHANGED mvars
    \/ ChunksReturn /\ UNCHANGED mvars

ChunkSpec == ChunkInit /\ [][ChunkNext]_vars

-----------------------------------------------------------------------------
(* The manager called with several spellings of a path, and clear.         *)

\* the spellings the callers use: "./p" is the file "p"
Spellings == Paths \cup {"./p"}

\* clear that takes the spelling for the key
ClearBySpelling(file_path) ==
    /\ LockFree
    /\ IF ~Falsy(file_path)
       THEN /\ _readers' = Del(_readers, file_path)
            /\ UNCHANGED <<_hits, _misses, counted>>
       ELSE /\ _readers' = <<>>
            /\ _hits' = 0
            /\ _misses' = 0
            /\ counted' = [counted EXCEPT !.constructed = 0, !.reused = 0]
    /\ last' = [op |-> "clear", path |-> file_path]
    /\ UNCHANGED <<rvars, _lock, clock, disk, threads, made>>

\* ReaderManager.clear(file_path): "if file_path" takes None and "" for no path
Clear(file_path) ==
    /\ LockFree
    /\ IF ~Falsy(file_path)
       THEN /\ _readers' = Del(_readers, resolve(file_path))
            /\ UNCHANGED <<_hits, _misses, counted>>
       ELSE /\ _readers' = <<>>
            /\ _hits' = 0
            /\ _misses' = 0
            /\ counted' = [counted EXCEPT !.constructed = 0, !.reused = 0]
    /\ last' = [op |-> "clear", path |-> file_path]
    /\ UNCHANGED <<rvars, _lock, clock, disk, threads, made>>

PathNext ==
    \/ \E t \in Threads : \E p \in Spellings : GetReaderBegin(t, p) /\ UNCHANGED cvars
    \/ \E t \in Threads : GetReaderAcquire(t) /\ UNCHANGED cvars
    \/ \E t \in Threads : GetReaderLookup(t) /\ UNCHANGED cvars
    \/ \E t \in Threads : GetReaderCreate(t) /\ UNCHANGED cvars
    \/ \E p \in Spellings \cup {NoneVal, ""} : Clear(p) /\ UNCHANGED cvars
    \/ Tick /\ UNCHANGED cvars

PathSpec == ManagerSpecInit /\ [][PathNext]_vars

-----------------------------------------------------------------------------
(* preload_files on one file whose reader the manager has registered: the  *)
(* reader under study, which get_reader hands back.                        *)

\* what preload_files records for the file; held and counted are what the
\* reader's caches and counters held when the call began
Preloaded(mode, status, err) ==
    [op |-> "preload_files", mode |-> mode, status |-> status, err |-> err,
     sheet |-> NoneVal, usecols |-> UseNone, mtime |-> file.mtime,
     held |-> Len(cache) + Len(row_count_cache),
     counted |-> cache_hits + cache_misses]

\* preload_files whose metadata mode does not call clear_cache
PreloadKeepCache(mode) ==
    LET head == Decode(NoneVal, UseNone, FALSE)
        r == _read_file(NoneVal, UseNone, FALSE)
    IN  IF mode = "metadata"
        THEN /\ last' = Preloaded(mode, IF head.ok THEN "loaded" ELSE "error", head.err)
             /\ UNCHANGED <<file, suffix, enable_cache, cache, row_count_cache,
                            cache_hits, cache_misses>>
        ELSE /\ CanCount
             /\ Commit(r)
             /\ UNCHANGED file
             /\ last' = Preloaded(mode, IF r.status = "ok" THEN "loaded" ELSE "error",
                                  r.err)

\* preload_files([file_path], mode), for the file of the reader: in metadata
\* mode the sheet names, read_head(n=5) and clear_cache; otherwise _read_file()
PreloadCall(mode) ==
    LET head == Decode(NoneVal, UseNone, FALSE)
        r == _read_file(NoneVal, UseNone, FALSE)
    IN  IF mode = "metadata"
        THEN IF ~head.ok
             THEN /\ last' = Preloaded(mode, "error", head.err)
                  /\ UNCHANGED <<file, suffix, enable_cache, cache, row_count_cache,
                                 cache_hits, cache_misses>>
             ELSE /\ last' = Preloaded(mode, "loaded", "")
                  /\ cache' = <<>>
                  /\ row_count_cache' = <<>>
                  /\ cache_hits' = 0
                  /\ cache_misses' = 0
                  /\ UNCHANGED <<file, suffix, enable_cache>>
        ELSE /\ CanCount
             /\ Commit(r)
             /\ UNCHANGED file
             /\ last' = Preloaded(mode, IF r.status = "ok" THEN "loaded" ELSE "error",
                                  r.err)

PreloadModes == {"metadata", "full"}

\* the manager constructs its readers with enable_cache=True
PreloadInit ==
    /\ file = [mtime |-> 0, cols |-> Columns]
    /\ suffix \in Suffixes
    /\ enable_cache = TRUE
    /\ cache = <<>>
    /\ row_count_cache = <<>>
    /\ cache_hits = 0
    /\ cache_misses = 0
    /\ last = Call("__init__", NoneVal, UseNone, "ok", "", "", NoDF, NoOut)
    /\ ManagerInit
    /\ NoCalls

PreloadNext ==
    \/ \E m \in PreloadModes : PreloadCall(m) /\ UNCHANGED <<mvars, cvars>>
    \/ \E a \in ReadArgs : ReadFileCall(a[1], a[2]) /\ UNCHANGED <<mvars, cvars>>
    \/ GetRowCountCall(NoneVal) /\ UNCHANGED <<mvars, cvars>>
    \/ ModifyFile(Columns) /\ UNCHANGED <<mvars, cvars>>

PreloadSpec == PreloadInit /\ [][PreloadNext]_vars

-----------------------------------------------------------------------------
(* _read_file and clear_cache called from several threads on one reader,   *)
(* statement by statement.  The reader has no lock; each operation on the  *)
(* OrderedDict is one step, and between two of them the other thread may   *)
(* run.  The position of a call is calls[t].pc:                            *)
(*   "test"       cache_key in self._cache                    (line 538)   *)
(*   "fetch"      self._cache[cache_key]                      (539-540)    *)
(*   "move"       move_to_end and the hit counter             (542-550)    *)
(*   "fulltest"   full_key in self._cache                     (555)        *)
(*   "fullfetch"  self._cache[full_key], the slice, its store (556-570)    *)
(*   "miss"       the miss counter, the decode, the store     (575-610)    *)
(*   "stored"     move_to_end of the stored entry             (611)        *)
(*   "evict"      len(self._cache) > self.max_cache_size      (613)        *)
(*   "pop"        popitem(last=False)                         (614)        *)
(* The two halves of a counter's "+= 1" are one step here; RaceSpec has    *)
(* them apart.                                                             *)

\* the selections the concurrent calls ask for: three cache keys
StepArgs == {<<NoneVal, UseNone>>,
             <<NoneVal, UseList(<<"A">>)>>,
             <<NoneVal, UseList(<<"B", "A">>)>>}

\* the calls under way
Underway == {t \in Threads : calls[t].pc # "idle"}

Parsed(t) == _parse_usecols(calls[t].usecols)
CacheKey(t) == _normalize_cache_key(calls[t].sheet, Parsed(t))
FullKey(t) == _normalize_cache_key(calls[t].sheet, UseNone)

\* what the call of thread t hands back, or the exception it ends with
StepReturn(t, kind, status, err) ==
    [op |-> "_read_file", thread |-> t, sheet |-> calls[t].sheet,
     usecols |-> calls[t].usecols, kind |-> kind, mtime |-> calls[t].mtime,
     status |-> status, err |-> err]

\* the call of thread t ends: it returns or raises
StepEnd(t, kind, status, err) ==
    /\ calls' = [calls EXCEPT ![t] = NoCall]
    /\ lookups' = lookups + 1
    /\ last' = StepReturn(t, kind, status, err)

\* the call of thread t goes on at pc
StepTo(t, pc) ==
    /\ calls' = [calls EXCEPT ![t].pc = pc]
    /\ UNCHANGED <<last, lookups>>

\* where a call goes on when the entry under cache_key is not used
AfterExact(t) == IF Parsed(t).kind # "none" THEN "fulltest" ELSE "miss"

\* the arguments are parsed, the key computed and st_mtime read
StepBegin(t, sheet_name, usecols) ==
    /\ calls[t].pc = "idle"
    /\ lookups + Cardinality(Underway) < MaxReads
    /\ calls' = [calls EXCEPT ![t] = [NoCall EXCEPT !.pc = "test",
                                                     !.sheet = sheet_name,
                                                     !.usecols = usecols,
                                                     !.mtime = file.mtime]]
    /\ UNCHANGED <<rvars, last, lookups>>

StepTest(t) ==
    /\ calls[t].pc = "test"
    /\ StepTo(t, IF HasKey(cache, CacheKey(t)) THEN "fetch" ELSE AfterExact(t))
    /\ UNCHANGED rvars

StepFetch(t) ==
    /\ calls[t].pc = "fetch"
    /\ IF ~HasKey(cache, CacheKey(t))
       THEN StepEnd(t, "", "error", "KeyError")
       ELSE StepTo(t, IF EntryValid(Get(cache, CacheKey(t)), calls[t].mtime)
                      THEN "move" ELSE AfterExact(t))
    /\ UNCHANGED rvars

StepMove(t) ==
    /\ calls[t].pc = "move"
    /\ IF ~HasKey(cache, CacheKey(t))
       THEN /\ StepEnd(t, "", "error", "KeyError")
            /\ UNCHANGED <<cache, cache_hits>>
       ELSE /\ cache' = MoveToEnd(cache, CacheKey(t))
            /\ cache_hits' = cache_hits + 1
            /\ StepEnd(t, "exact", "ok", "")
    /\ UNCHANGED <<file, suffix, enable_cache, row_count_cache, cache_misses>>

StepFullTest(t) ==
    /\ calls[t].pc = "fulltest"
    /\ StepTo(t, IF HasKey(cache, FullKey(t)) THEN "fullfetch" ELSE "miss")
    /\ UNCHANGED rvars

\* self._cache[full_key] stands before the try: its KeyError is not caught
StepFullFetch(t) ==
    /\ calls[t].pc = "fullfetch"
    /\ IF ~HasKey(cache, FullKey(t))
       THEN /\ StepEnd(t, "", "error", "KeyError")
            /\ UNCHANGED <<cache, cache_hits>>
       ELSE LET full == Get(cache, FullKey(t))
                s == Slice(full.df, Parsed(t))
                stored == [key |-> CacheKey(t),
                           df |-> [id |-> CacheKey(t), cols |-> s.cols,
                                   rows |-> full.df.rows],
                           mtime |-> calls[t].mtime]
            IN  IF EntryValid(full, calls[t].mtime) /\ s.ok
                THEN /\ cache' = MoveToEnd(SetItem(cache, stored), CacheKey(t))
                     /\ cache_hits' = cache_hits + 1
                     /\ StepEnd(t, "derived", "ok", "")
                ELSE /\ StepTo(t, "miss")
                     /\ UNCHANGED <<cache, cache_hits>>
    /\ UNCHANGED <<file, suffix, enable_cache, row_count_cache, cache_misses>>

StepDecode(t) ==
    LET d == Decode(calls[t].sheet, Parsed(t), FALSE)
        stored == [key |-> CacheKey(t),
                   df |-> [id |-> CacheKey(t), cols |-> d.cols, rows |-> d.rows],
                   mtime |-> calls[t].mtime]
    IN  /\ calls[t].pc = "miss"
        /\ cache_misses' = cache_misses + 1
        /\ IF ~d.ok
           THEN /\ StepEnd(t, "miss", "error", d.err)
                /\ UNCHANGED cache
           ELSE /\ cache' = SetItem(cache, stored)
                /\ StepTo(t, "stored")
        /\ UNCHANGED <<file, suffix, enable_cache, row_count_cache, cache_hits>>

StepStoredMove(t) ==
    /\ calls[t].pc = "stored"
    /\ IF ~HasKey(cache, CacheKey(t))
       THEN /\ StepEnd(t, "miss", "error", "KeyError")
            /\ UNCHANGED cache
       ELSE /\ cache' = MoveToEnd(cache, CacheKey(t))
            /\ StepTo(t, "evict")
    /\ UNCHANGED <<file, suffix, enable_cache, row_count_cache,
                   cache_hits, cache_misses>>

StepEvictTest(t) ==
    /\ calls[t].pc = "evict"
    /\ IF Len(cache) > max_cache_size
       THEN StepTo(t, "pop")
       ELSE StepEnd(t, "miss", "ok", "")
    /\ UNCHANGED rvars

\* popitem on an empty OrderedDict raises KeyError
StepPop(t) ==
    /\ calls[t].pc = "pop"
    /\ IF cache = <<>>
       THEN /\ StepEnd(t, "miss", "error", "KeyError")
            /\ UNCHANGED cache
       ELSE /\ cache' = Tail(cache)
            /\ StepTo(t, "evict")
    /\ UNCHANGED <<file, suffix, enable_cache, row_count_cache,
                   cache_hits, cache_misses>>

\* clear_cache, called by a thread that is not in _read_file
StepClearCache(t) ==
    /\ calls[t].pc = "idle"
    /\ cache # <<>>
    /\ ClearCacheCall
    /\ UNCHANGED cvars

\* the file is rewritten at most MaxRewrites times while the calls run
MaxRewrites == 1

StepModifyFile ==
    /\ file.mtime < MaxRewrites
    /\ RaceModifyFile

StepNext ==
    \/ \E t \in Threads : \E a \in StepArgs : StepBegin(t, a[1], a[2]) /\ UNCHANGED mvars
    \/ \E t \in Threads : StepTest(t) /\ UNCHANGED mvars
    \/ \E t \in Threads : StepFetch(t) /\ UNCHANGED mvars
    \/ \E t \in Threads : StepMove(t) /\ UNCHANGED mvars
    \/ \E t \in Threads : StepFullTest(t) /\ UNCHANGED mvars
    \/ \E t \in Threads : StepFullFetch(t) /\ UNCHANGED mvars
    \/ \E t \in Threads : StepDecode(t) /\ UNCHANGED mvars
    \/ \E t \in Threads : StepStoredMove(t) /\ UNCHANGED mvars
    \/ \E t \in Threads : StepEvictTest(t) /\ UNCHANGED mvars
    \/ \E t \in Threads : StepPop(t) /\ UNCHANGED mvars
    \/ \E t \in Threads : StepClearCache(t) /\ UNCHANGED mvars
    \/ StepModifyFile /\ UNCHANGED mvars

StepSpec == RaceInit /\ [][StepNext]_vars

-----------------------------------------------------------------------------
(* Properties.  A call is a step of ReadFileCall, ReadCall or QueryCall;   *)
(* the properties about one call are stated on the step it takes.          *)

\* the cells a call handed back to its caller
ReturnedVals(c) ==
    IF c.op = "_read_file" THEN ColVals(c.df.cols)
    ELSE IF c.op = "read" /\ c.status = "ok" THEN c.out.data[2]
    ELSE <<>>

\* the key _read_file computes for the arguments of call c
KeyOf(c) == _normalize_cache_key(c.sheet, _parse_usecols(c.usecols))
FullKeyOf(c) == _normalize_cache_key(c.sheet, UseNone)

\* the entry under key k is there and was stored at the file's current
\* modification time
ValidAt(k) == HasKey(cache, k) /\ Get(cache, k).mtime = file.mtime

Clean(cols) == \A i \in 1..Len(cols) : cols[i].val # MutatedVal

\* C1: after every completed _read_file call, whatever path it took, the data
\* cache holds at most max_cache_size entries.
C1_CacheWithinMaxSize == Len(cache) <= max_cache_size

\* C2: an entry whose stored modification time differs from the file's at
\* lookup is treated as absent: every call that counts a hit took its data from
\* an entry (its own key on an exact hit, the full key on a derived hit) stored
\* at the file's current modification time, and hands back cells of that
\* version of the file.
C2_StaleEntryNeverUsed ==
    [][cache_hits' = cache_hits + 1 =>
          LET src == IF last'.kind = "exact" THEN KeyOf(last') ELSE FullKeyOf(last')
          IN  /\ last'.kind \in {"exact", "derived"}
              /\ ValidAt(src)
              /\ \A i \in 1..Len(ReturnedVals(last')) :
                     ReturnedVals(last')[i].ver = file.mtime
     ]_vars

\* a successful miss at a later modification time than that of a full-keyed
\* entry holding the requested columns: the stale full entry was not used
C2_Witness ==
    /\ last.op = "_read_file" /\ last.status = "ok" /\ last.kind = "miss"
    /\ last.usecols = UseList(<<"A">>)
    /\ HasKey(cache, FullKeyOf(last))
    /\ Get(cache, FullKeyOf(last)).mtime < last.mtime
    /\ "A" \in Names(Get(cache, FullKeyOf(last)).df.cols)

\* C3: with the cache enabled, a read that directly follows a successful read
\* with the same sheet and column selection, the file not modified in between,
\* is an exact hit: no decode, cache_hits + 1, cache_misses unchanged, and the
\* same result as the first call.
C3_RepeatedReadIsExactHit ==
    [][\A a \in ReadCallArgs :
          (/\ enable_cache
           /\ last.op = "read" /\ last.status = "ok"
           /\ last.sheet = a[1] /\ last.usecols = a[2]
           /\ last.mtime = file.mtime
           /\ ReadCall(a[1], a[2]))
          => /\ last'.kind = "exact" /\ last'.status = "ok"
             /\ cache_hits' = cache_hits + 1
             /\ cache_misses' = cache_misses
             /\ last'.out = last.out
     ]_vars

\* one miss, then a read answered by an exact hit, on an unmodified file
C3_Witness ==
    /\ last.op = "read" /\ last.kind = "exact" /\ last.status = "ok"
    /\ cache_hits = 1 /\ cache_misses = 1 /\ Len(cache) = 1
    /\ file.mtime = 0

\* C4 as stated: a read that finds, under its key, an entry stored at another
\* modification time (the file changed since the selection was last read) is a
\* miss: cache_misses + 1, cache_hits unchanged, and, the decode succeeding, the
\* entry replaced by the new data with the new modification time.
C4_ReadAfterChangeIsMiss ==
    [][\A a \in ReadCallArgs :
          LET key == _normalize_cache_key(a[1], _parse_usecols(a[2]))
          IN  (/\ enable_cache
               /\ last'.op = "read" /\ last'.usecols = a[2]
               /\ HasKey(cache, key) /\ ~ValidAt(key)
               /\ ReadCall(a[1], a[2]))
              => /\ last'.kind = "miss"
                 /\ cache_misses' = cache_misses + 1
                 /\ cache_hits' = cache_hits
                 /\ last'.status = "ok" =>
                        /\ HasKey(cache', key)
                        /\ Get(cache', key).mtime = file.mtime
     ]_vars

\* C4, amended: a read that finds under its key an entry stored at another
\* modification time is never an exact hit.  When a valid full-keyed entry
\* holds the requested column names it is a derived hit (cache_hits + 1,
\* cache_misses unchanged) and the entry is replaced by the slice of that full
\* entry; otherwise it is a miss (cache_misses + 1, cache_hits unchanged), the
\* file is decoded again and, the decode succeeding, the entry is replaced by
\* the decoded data; in both cases the new entry carries the file's current
\* modification time.  A failing decode leaves the cache as it was.
C4_ReadAfterChangeNeverExact ==
    [][\A a \in ReadCallArgs :
          LET parsed == _parse_usecols(a[2])
              key == _normalize_cache_key(a[1], parsed)
              full_key == _normalize_cache_key(a[1], UseNone)
              derivable == /\ parsed.kind = "list"
                           /\ ValidAt(full_key)
                           /\ Range(parsed.names) \subseteq
                                  Names(Get(cache, full_key).df.cols)
              d == Decode(a[1], parsed, FALSE)
          IN  (/\ enable_cache
               /\ last'.op = "read" /\ last'.usecols = a[2]
               /\ HasKey(cache, key) /\ ~ValidAt(key)
               /\ ReadCall(a[1], a[2]))
              => IF derivable
                 THEN /\ last'.kind = "derived" /\ last'.status = "ok"
                      /\ cache_hits' = cache_hits + 1
                      /\ cache_misses' = cache_misses
                      /\ Get(cache', key).mtime = file.mtime
                      /\ Get(cache', key).df.cols =
                             Pick(Get(cache, full_key).df.cols, parsed.names)
                      /\ last'.out.data[2] = ColVals(Get(cache', key).df.cols)
                 ELSE /\ last'.kind = "miss"
                      /\ cache_misses' = cache_misses + 1
                      /\ cache_hits' = cache_hits
                      /\ d.ok => /\ last'.status = "ok"
                                 /\ Get(cache', key).mtime = file.mtime
                                 /\ Get(cache', key).df.cols = d.cols
                                 /\ last'.out.data[2] = ColVals(d.cols)
                      /\ ~d.ok => /\ last'.status = "error"
                                  /\ cache' = cache
     ]_vars

\* a read has found a stale entry under its key, decoded the file again and
\* stored the new data with the new modification time
C4_Witness ==
    /\ last.op = "read" /\ last.found = "stale"
    /\ last.kind = "miss" /\ last.status = "ok"
    /\ HasKey(cache, KeyOf(last))
    /\ Get(cache, KeyOf(last)).mtime = file.mtime
    /\ file.mtime > 0

\* C5: with a valid full-keyed entry for the sheet, a call that requests a list
\* of column names all present in it, and has no valid entry under its own key,
\* is a derived hit: no decode, cache_hits + 1, cache_misses unchanged, the data
\* returned are the requested columns of the cached full dataset, and the slice
\* is stored under the selection's normalized key with the current modification
\* time.
C5_DerivedHit ==
    [][\A a \in ReadArgs :
          LET parsed == _parse_usecols(a[2])
              key == _normalize_cache_key(a[1], parsed)
              full_key == _normalize_cache_key(a[1], UseNone)
              slice == Pick(Get(cache, full_key).df.cols, parsed.names)
          IN  (/\ enable_cache
               /\ last'.sheet = a[1] /\ last'.usecols = a[2]
               /\ parsed.kind = "list"
               /\ ValidAt(full_key)
               /\ Range(parsed.names) \subseteq Names(Get(cache, full_key).df.cols)
               /\ ~ValidAt(key)
               /\ (ReadFileCall(a[1], a[2]) \/ ReadCall(a[1], a[2])))
              => /\ last'.kind = "derived" /\ last'.status = "ok"
                 /\ cache_hits' = cache_hits + 1
                 /\ cache_misses' = cache_misses
                 /\ ReturnedVals(last') = ColVals(slice)
                 /\ HasKey(cache', key)
                 /\ Get(cache', key).mtime = file.mtime
                 /\ Get(cache', key).df.cols = slice
                 /\ Get(cache', key).df.rows = Get(cache, full_key).df.rows
     ]_vars

\* a call has been answered by a derived hit and its slice is in the cache
C5_Witness ==
    /\ last.kind = "derived" /\ last.status = "ok"
    /\ last.usecols = UseList(<<"B", "A">>)
    /\ ValidAt(FullKeyOf(last))
    /\ ValidAt(KeyOf(last))
    /\ ColNames(Get(cache, KeyOf(last)).df.cols) = <<"B", "A">>

C7_SetEqualSelectionsSameKey ==
    (/\ last.op = "_normalize_cache_key"
     /\ last.a.kind = "list" /\ last.b.kind = "list"
     /\ Range(last.a.names) = Range(last.b.names))
    => last.key_a = last.key_b

\* C8: what _read_file hands back is independent of the cached entry: whatever
\* callers write into the DataFrames they were handed, no entry of the cache
\* is written, and every read is answered with cells of the file.
C8_ReturnedDataIndependent ==
    /\ \A k \in 1..Len(cache) : Clean(cache[k].df.cols)
    /\ \A k \in 1..Len(cache) : cache[k].df.id # CallerId
    /\ (last.op = "read" /\ last.status = "ok") =>
           \A i \in 1..Len(last.out.data[2]) : last.out.data[2][i] # MutatedVal

\* the caller of an exact hit has overwritten the DataFrame it was handed while
\* the cache holds the entry it was copied from
C8_Witness ==
    /\ last.op = "_read_file" /\ last.kind = "exact" /\ last.status = "ok"
    /\ ~Clean(last.df.cols)
    /\ ValidAt(KeyOf(last))
    /\ Clean(Get(cache, KeyOf(last)).df.cols)

\* C9: a call whose decode fails (unsupported suffix, file gone when it is
\* opened, sheet or columns the decoder does not find) fails and leaves the
\* data cache and the row-count cache with the same entries in the same order.
C9_FailedDecodeCommitsNothing ==
    [][\A a \in ReadArgs : \A vanished \in BOOLEAN :
          (/\ last'.kind \in {"miss", "nocache"}
           /\ last'.sheet = a[1] /\ last'.usecols = a[2]
           /\ ~Decode(a[1], _parse_usecols(a[2]), vanished).ok
           /\ IF vanished THEN ReadFileVanished(a[1], a[2])
              ELSE \/ ReadFileCall(a[1], a[2])
                   \/ ReadCall(a[1], a[2])
                   \/ \E q \in QueryArgs :
                          QueryCall(q[1], q[2], q[3], a[1], a[2]))
          => /\ last'.status = "error"
             /\ last'.err = Decode(a[1], _parse_usecols(a[2]), vanished).err
             /\ ReturnedVals(last') = <<>>
             /\ cache' = cache
             /\ row_count_cache' = row_count_cache
     ]_vars

\* a read found a stale entry under its key, its decode failed, and the entry
\* is still there, beside an entry of the row-count cache
C9_Witness ==
    /\ last.op \in {"_read_file", "read"}
    /\ last.status = "error" /\ last.kind = "miss" /\ last.found = "stale"
    /\ HasKey(cache, KeyOf(last))
    /\ Get(cache, KeyOf(last)).mtime < last.mtime
    /\ row_count_cache # <<>>

C17_ClearCacheResetsAll ==
    [][/\ (last'.op = "clear_cache" /\ last' # last)
          => /\ last'.status = "ok"
             /\ last'.out.cleared = Len(cache) + Len(row_count_cache)
             /\ cache' = <<>> /\ row_count_cache' = <<>>
             /\ cache_hits' = 0 /\ cache_misses' = 0
       /\ (last.op = "clear_cache" /\ last'.op = "get_cache_info")
          => /\ last'.status = "ok"
             /\ last'.out.data_cache_count = 0
             /\ last'.out.row_count_cache_count = 0
             /\ last'.out.total_cache_entries = 0
             /\ last'.out.cache_hits = 0 /\ last'.out.cache_misses = 0
             /\ last'.out.total_requests = 0 /\ last'.out.hit_rate = 0
     ]_vars

\* clear_cache has emptied a data cache and a row-count cache that held
\* entries, and reset the counters
C17_Witness ==
    /\ last.op = "clear_cache" /\ last.status = "ok"
    /\ last.out.cleared >= 3
    /\ cache = <<>> /\ row_count_cache = <<>>
    /\ cache_hits = 0 /\ cache_misses = 0

-----------------------------------------------------------------------------
(* Properties of query on the rows of a dataset (AggSpec) *)

\* the rows of the group of label g among the rows passing the filters
GroupOf(c, g) == SelectSeq(c.passing, LAMBDA r : r.A = g)

\* the labels met in column A of the rows passing the filters
PassingLabels(c) == {c.passing[i].A : i \in 1..Len(c.passing)} \ {NaN}

C20_CountAndDistinctCount ==
    (/\ last.op = "query" /\ last.status = "ok"
     /\ last.aggregation \in {"count", "nunique"}
     /\ last.aggregate_column = "B")
    => \A i \in 1..Len(last.result) :
           LET group == GroupOf(last, last.result[i][1])
           IN  last.result[i][2] =
                   IF last.aggregation = "count" THEN Len(group)
                   ELSE Cardinality({group[j].B : j \in 1..Len(group)})

\* the clauses of filters on columns the datasets have
KnownClauses(filters) == SelectSeq(filters, LAMBDA f : f.column \in {"A", "B"})

\* C27: a filter clause on a column the dataset does not have is a no-op and
\* no error: the rows that pass a list of clauses are the rows that pass the
\* list without its unknown-column clauses, and a query with such a clause
\* and a valid aggregation succeeds.
C27_UnknownColumnClauseIsNoOp ==
    [][(last.op = "args" /\ last'.op = "query") =>
          /\ last'.passing = _apply_filters(last.rows, KnownClauses(last.filters))
          /\ KnownClauses(last.filters) # last.filters => last'.status = "ok"
      ]_vars

\* a query whose filters held a clause on an unknown column and a clause that
\* some rows pass and some do not
C27_Witness ==
    /\ last.op = "query" /\ last.status = "ok"
    /\ KnownClauses(last.filters) # last.filters
    /\ last.passing # <<>>
    /\ last.passing # last.rows

-----------------------------------------------------------------------------
(* Properties of the ReaderManager (ManagerSpec).  A call of get_reader    *)
(* returns in the step after which last.op = "get_reader".                 *)

\* C12: whatever get_reader, clear and get_stats calls have been made, the
\* registry holds at most max_readers readers.
C12_RegistryWithinMaxReaders == Len(_readers) <= max_readers

\* a reader was just registered for a new path while the registry was full of
\* readers that were not idle: the oldest was evicted
C12_Witness ==
    /\ last.op = "get_reader" /\ last.status = "ok" /\ last.old = 0
    /\ last.reader = max_readers + 1
    /\ counted.constructed = max_readers + 1
    /\ clock = 0
    /\ Len(_readers) = max_readers

\* C13: a reader that has been idle for longer than idle_timeout is evicted by
\* the next call of get_reader, for whatever path: when the call returns, the
\* reader is no longer registered, and it is not the reader returned (a call
\* for its path constructs a new one).
C13_IdleReaderEvictedOnAccess ==
    [][last'.op = "get_reader" =>
          \A i \in 1..Len(_readers) :
              clock - _readers[i].last_used > idle_timeout =>
                  /\ last'.reader # _readers[i].reader
                  /\ \A j \in 1..Len(_readers') :
                         _readers'[j].reader # _readers[i].reader
      ]_vars

InGetReader == {t \in Threads : threads[t].pc \in {"locked", "create"}}

\* C15: however concurrent calls of get_reader for one path interleave, they
\* go through the registry one at a time; a call that finds the path
\* registered with an unmodified file returns the registered reader and
\* leaves it the only entry of the path; a reader is constructed for a path
\* only when none is registered for it, and is then the only entry of the
\* path.  So on an unmodified file the calls all return the reader that the
\* first of them constructed, and the path has exactly one entry.
C15_SamePathSameReader ==
    [][/\ Cardinality(InGetReader) <= 1
       /\ InGetReader # {} => _lock \in InGetReader
       /\ \A i, j \in 1..Len(_readers) :
              _readers[i].key = _readers[j].key => i = j
       /\ \A t \in Threads :
              LET p == threads[t].path
              IN  /\ (/\ threads[t].pc = "locked"
                      /\ HasKey(_readers, p)
                      /\ ~_is_file_modified(p, Get(_readers, p).last_used)
                      /\ threads'[t].pc # "locked") =>
                         /\ last'.op = "get_reader"
                         /\ last'.reader = Get(_readers, p).reader
                         /\ Cardinality({i \in 1..Len(_readers') :
                                            _readers'[i].key = p}) = 1
                         /\ Get(_readers', p).reader = last'.reader
                         /\ made' = made
                  /\ (threads[t].pc = "create" /\ threads'[t].pc # "create") =>
                         /\ ~HasKey(_readers, p)
                         /\ last'.status = "ok" =>
                               /\ Cardinality({i \in 1..Len(_readers') :
                                                  _readers'[i].key = p}) = 1
                               /\ Get(_readers', p).reader = last'.reader
      ]_vars

\* two calls for the same unregistered path are under way: one holds the lock
\* and is about to construct the reader, the other waits for the lock
C15_Witness ==
    /\ threads["t1"].pc = "create"
    /\ threads["t2"].pc = "waiting"
    /\ threads["t1"].path = threads["t2"].path
    /\ _lock = "t1"
    /\ ~HasKey(_readers, threads["t1"].path)

\* C16: a call of get_reader never waits for a lock held by a call of
\* get_reader for a different path.
C16_DifferentPathsNeverBlock ==
    \A t, u \in Threads :
        (threads[t].pc = "waiting" /\ _lock = u /\ u # t) =>
            threads[u].path = threads[t].path

\* C18: between calls of get_reader, _hits (manager_hits) is the number of
\* calls since the last clear() that returned a registered reader, and
\* _misses (manager_misses) the number of readers constructed since then,
\* each construction counted once, those that replace a reader included.
C18_CountersMatchCalls ==
    InGetReader = {} =>
        /\ _hits = counted.reused
        /\ _misses = counted.constructed

-----------------------------------------------------------------------------
(* Properties of the data cache as an LRU map (Spec) *)

\* the last k entries of d, all of d when it has fewer
LastOf(d, k) == IF Len(d) <= k THEN d ELSE SubSeq(d, Len(d) - k + 1, Len(d))

\* C22: the order of the data cache is the order of recency, set by stores and
\* exact hits: an exact hit moves its entry to the end and a store puts the
\* stored entry at the end, the others keeping their order.  A store after a
\* miss then keeps the stored entry and the max_cache_size - 1 most recently
\* used of the others: the entries it evicts are exactly the least recently
\* used ones, and never the entry just stored.
C22_MissStoreEvictsLeastRecent ==
    [][/\ (last'.kind = "exact" /\ cache_hits' = cache_hits + 1) =>
              cache' = Del(cache, KeyOf(last')) \o <<Get(cache, KeyOf(last'))>>
       /\ (last'.kind = "derived" /\ cache_hits' = cache_hits + 1) =>
              /\ Del(cache', KeyOf(last')) = Del(cache, KeyOf(last'))
              /\ cache'[Len(cache')].key = KeyOf(last')
       /\ (last'.kind = "miss" /\ cache_misses' = cache_misses + 1 /\ cache' # cache) =>
              /\ cache'[Len(cache')].key = KeyOf(last')
              /\ cache'[Len(cache')].mtime = last'.mtime
              /\ Del(cache', KeyOf(last')) =
                     LastOf(Del(cache, KeyOf(last')), max_cache_size - 1)
      ]_vars

\* three misses and one exact hit on an unmodified file: the last miss stored
\* its entry into a full cache and evicted the least recently used entry
C22_Witness ==
    /\ last.op = "_read_file" /\ last.kind = "miss" /\ last.status = "ok"
    /\ last.usecols = UseList(<<"B", "A">>)
    /\ cache_hits = 1 /\ cache_misses = 3 /\ file.mtime = 0
    /\ Len(cache) = max_cache_size
    /\ cache[1].key = KeyOf([sheet |-> "Sheet2", usecols |-> UseNone])
    /\ cache[2].key = KeyOf(last)

\* C25: every entry used to serve a read (the entry of the call's key on an
\* exact hit; the full-keyed source entry, and the slice stored, on a derived
\* hit) is, after the call, more recently used than every entry the call did
\* not access: it stands after them in the cache.
C25_EveryAccessUpdatesRecency ==
    [][cache_hits' = cache_hits + 1 =>
          LET used == IF last'.kind = "exact" THEN {KeyOf(last')}
                      ELSE {FullKeyOf(last'), KeyOf(last')}
          IN  \A i, j \in 1..Len(cache') :
                  (cache'[i].key \in used /\ cache'[j].key \notin used) => i > j
      ]_vars

\* C26: a query whose aggregation is none of the names of agg_funcs is
\* rejected when the plan is built: it fails with a validation error before
\* any decode of the file, store in the cache or update of the hit and miss
\* counters.
C26_UnknownAggregationFailsBeforeRead ==
    [][\A q \in QueryArgs :
          (/\ last'.op = "query"
           /\ ~Falsy(q[1]) /\ ~Falsy(q[2]) /\ q[2] \notin AggFuncs
           /\ QueryCall(q[1], q[2], q[3], NoneVal, UseNone))
          => /\ last'.status = "error" /\ last'.err = "ValueError"
             /\ last'.kind = ""
             /\ cache' = cache
             /\ cache_hits' = cache_hits
             /\ cache_misses' = cache_misses
      ]_vars

\* C30: get_row_count leaves the data cache (entries and order), cache_hits
\* and cache_misses as they are, and what it returns is determined by the
\* file and the row-count cache alone: the count of a row-count entry stored
\* at the file's current modification time when the cache is enabled and holds
\* one, the number of data rows of the sheet otherwise.
C30_RowCountIndependentOfDataCache ==
    [][\A s \in RowCountArgs :
          (last'.op = "get_row_count" /\ GetRowCountCall(s)) =>
              LET k == SheetKey(s)
                  cached == /\ enable_cache
                            /\ HasKey(row_count_cache, k)
                            /\ Get(row_count_cache, k).mtime = file.mtime
              IN  /\ cache' = cache
                  /\ cache_hits' = cache_hits
                  /\ cache_misses' = cache_misses
                  /\ last'.status = "ok" =>
                         last'.out.rows =
                             IF cached THEN Get(row_count_cache, k).count
                             ELSE FileRows(SheetRead(s), file.mtime)
      ]_vars

\* get_row_count has returned the row count of the rewritten file while the
\* data cache holds the sheet's older dataset, with another number of rows
C30_Witness ==
    /\ last.op = "get_row_count" /\ last.status = "ok"
    /\ last.mtime = file.mtime
    /\ HasKey(cache, FullKeyOf(last))
    /\ Get(cache, FullKeyOf(last)).df.rows # last.out.rows
    /\ cache_misses > 0

\* C23: the step of get_reader that constructs a reader first removes from the
\* registry every reader whose last use is more than idle_timeout ago; if
\* max_readers readers remain, it removes exactly one more, the first in the
\* order of the registry, which is the least recently used (no reader that
\* stays was used before it); no other reader is removed.  The order of the
\* registry is the order of last use, set by creation and by every reuse.
C23_CleanupBeforeInsertion ==
    [][/\ \A i, j \in 1..Len(_readers) :
              i < j => _readers[i].last_used <= _readers[j].last_used
       /\ \A t \in Threads :
              (threads[t].pc = "create" /\ threads'[t].pc # "create") =>
                  LET p == threads[t].path
                      live == SelectSeq(_readers, LAMBDA e :
                                  ~(clock - e.last_used > idle_timeout))
                      kept == Del(_readers', p)
                  IN  IF Len(live) >= max_readers
                      THEN /\ Len(live) = max_readers
                           /\ kept = Tail(live)
                           /\ \A i \in 1..Len(kept) :
                                  live[1].last_used <= kept[i].last_used
                      ELSE kept = live
      ]_vars

\* a reader was just constructed with the registry full of readers in use:
\* exactly one reader was evicted
C23_Witness ==
    /\ last.op = "get_reader" /\ last.status = "ok" /\ last.old = 0
    /\ clock > 0
    /\ Cardinality(last.evicted) = 1
    /\ Len(_readers) = max_readers
    /\ \A i \in 1..Len(_readers) : clock - _readers[i].last_used <= idle_timeout

-----------------------------------------------------------------------------
(* Properties of concurrent reads on one reader (RaceSpec).                *)

\* C21: no counter update is lost: whenever no thread is between the load
\* and the store of a counter, cache_hits + cache_misses is the number of
\* cached lookups of _read_file completed.
C21_NoCounterUpdateLost ==
    Counting = {} => cache_hits + cache_misses = lookups

-----------------------------------------------------------------------------
(* Properties of the sort and the limit of query (SortSpec).               *)

\* C28: when order_by names a column of the aggregated output, the rows are
\* in ascending or descending order of that column as order says, rows of
\* equal key keeping their relative order; when order_by is absent or names
\* no output column, the order of the aggregated output is unchanged and
\* the call does not fail.
C28_SortKeepsOrderOfEqualKeys ==
    [][last'.op = "query" =>
          /\ last'.status = "ok"
          /\ last'.sorted =
                 IF last'.order_by \in Range(last'.columns)
                 THEN StableSort(last'.aggregated,
                                 ColumnIndex(last'.columns, last'.order_by),
                                 last'.order = "asc")
                 ELSE last'.aggregated
      ]_vars

\* C29: for limit >= 0 the limit is applied after the sort: the result is
\* the first min(limit, number of groups) rows of the whole aggregated
\* output put in order.
C29_LimitAfterSort ==
    [][(last'.op = "query" /\ last'.limit >= 0) =>
          LET n == IF last'.limit < Len(last'.aggregated) THEN last'.limit
                   ELSE Len(last'.aggregated)
          IN  /\ Len(last'.result) = n
              /\ \E s \in SortedOutputs(last'.aggregated, last'.columns,
                                        last'.order_by, last'.order) :
                     last'.result = SubSeq(s, 1, n)
      ]_vars

\* C29 witness: a limit smaller than the number of groups cut a sorted
\* output whose first row is not the first row of the aggregated output
C29_Witness ==
    /\ last.op = "query"
    /\ last.limit = 1
    /\ Len(last.aggregated) = 2
    /\ last.order_by \in Range(last.columns)
    /\ last.result = <<last.aggregated[2]>>

-----------------------------------------------------------------------------
(* Properties of the row-count cache (CountSpec).                          *)

\* C31: with the cache enabled, get_row_count returns the cached count only
\* when the entry of the sheet was stored at the file's current modification
\* time, and then changes nothing; otherwise a call that succeeds returns
\* the number of data rows the sheet has now and leaves under the sheet's
\* key that count with the current modification time, every other entry
\* staying as it was.
C31_RowCountStaleness ==
    [][\A s \in CountArgs :
          (last'.op = "get_row_count" /\ enable_cache /\ GetRowCountCall(s)) =>
              LET k == SheetKey(s)
                  fresh == /\ HasKey(row_count_cache, k)
                           /\ Get(row_count_cache, k).mtime = file.mtime
              IN  IF fresh
                  THEN /\ last'.status = "ok"
                       /\ last'.out.rows = Get(row_count_cache, k).count
                       /\ row_count_cache' = row_count_cache
                  ELSE IF last'.status = "ok"
                  THEN /\ last'.out.rows = FileRows(SheetRead(s), file.mtime)
                       /\ HasKey(row_count_cache', k)
                       /\ Get(row_count_cache', k).count = last'.out.rows
                       /\ Get(row_count_cache', k).mtime = file.mtime
                       /\ Del(row_count_cache', k) = Del(row_count_cache, k)
                  ELSE row_count_cache' = row_count_cache
      ]_vars

\* C31 witness: a stale entry was overwritten in place: the call has just
\* returned the count stored at the current modification time under a key
\* that stands before an entry stored at an earlier time
C31_Witness ==
    /\ last.op = "get_row_count" /\ last.status = "ok"
    /\ enable_cache
    /\ \E i, j \in 1..Len(row_count_cache) :
          /\ i < j
          /\ row_count_cache[i].key = SheetKey(last.sheet)
          /\ row_count_cache[i].mtime = file.mtime
          /\ row_count_cache[i].count = last.out.rows
          /\ row_count_cache[j].mtime < file.mtime

\* C32: the row-count cache never holds more than max_cache_size entries.
C32_RowCountCacheWithinMaxSize ==
    Len(row_count_cache) <= max_cache_size

-----------------------------------------------------------------------------
(* Properties of read_head and read_tail (PartSpec).                       *)

\* C33: read_head and read_tail, whether they succeed or fail, leave the
\* data cache, the row-count cache, cache_hits and cache_misses as they
\* are, and what they return is decoded from the file as it is now, never
\* taken from a cache entry.
C33_HeadAndTailNeverCache ==
    [][(last'.op \in {"read_head", "read_tail"} /\ file' = file) =>
          /\ cache' = cache
          /\ row_count_cache' = row_count_cache
          /\ cache_hits' = cache_hits
          /\ cache_misses' = cache_misses
          /\ last'.status = "ok" =>
                 /\ last'.out.data =
                        _df_to_array([cols |-> Decode(last'.sheet, last'.usecols, FALSE).cols])
                 /\ \A i \in 1..Len(last'.out.data[2]) :
                        last'.out.data[2][i].ver = file.mtime
      ]_vars

\* C33 witness: read_head has returned the rewritten file's cells while the
\* data cache holds, under the key of the same selection, the older dataset
C33_Witness ==
    /\ last.op = "read_head" /\ last.status = "ok"
    /\ enable_cache
    /\ HasKey(cache, KeyOf(last))
    /\ Get(cache, KeyOf(last)).mtime < file.mtime
    /\ cache_misses > 0
    /\ \E i \in 1..Len(last.out.data[2]) : last.out.data[2][i].ver = file.mtime

-----------------------------------------------------------------------------
(* Properties of read_parallel_chunks (ChunkSpec).                         *)

\* C34: never more than 8 workers run at once, and a call that returns
\* hands back one chunk per task in the order of the ranges, whatever the
\* order in which the tasks finished: element i (from 0) holds the data
\* rows [i*chunksize, (i+1)*chunksize) that the sheet has, so the ranges of
\* different elements are disjoint.
C34_ChunksInRangeOrder ==
    /\ Cardinality(Running) <= 8
    /\ (last.op = "read_parallel_chunks" /\ last.status = "ok") =>
           /\ Len(last.result) = last.num_chunks
           /\ \A i \in 1..Len(last.result) :
                 LET lo == (i - 1) * last.chunksize
                     rows == FileRows(SheetRead(NoneVal), file.mtime)
                 IN  /\ last.result[i].first = lo
                     /\ last.result[i].count =
                            IF rows >= lo + last.chunksize THEN last.chunksize
                            ELSE IF rows > lo THEN rows - lo ELSE 0
           /\ \A i, j \in 1..Len(last.result) :
                 i < j => last.result[i].first + last.result[i].count
                              <= last.result[j].first

\* C34 witness: a call of more than 8 chunks has returned chunks with rows
\* in them after a task finished before an earlier one
C34_Witness ==
    /\ last.op = "read_parallel_chunks" /\ last.status = "ok"
    /\ last.overtaken
    /\ last.num_chunks > 8
    /\ last.result[2].count > 0

-----------------------------------------------------------------------------
(* Properties of the registry under several spellings of a path (PathSpec) *)

C36_RegistryKeyedByCanonicalPath ==
    [][/\ \A i \in 1..Len(_readers') : _readers'[i].key \in Paths
       /\ \A i, j \in 1..Len(_readers') :
              _readers'[i].key = _readers'[j].key => i = j
       /\ (last'.op = "get_reader" /\ last'.status = "ok") =>
              /\ last'.asked \in Spellings
              /\ HasKey(_readers', resolve(last'.asked))
              /\ Get(_readers', resolve(last'.asked)).reader = last'.reader
              /\ (\E t \in Threads : threads[t].pc = "locked"
                                     /\ threads[t].path = last'.asked
                                     /\ HasKey(_readers, resolve(last'.asked))) =>
                     last'.reader = Get(_readers, resolve(last'.asked)).reader
              /\ \A i \in 1..Len(_readers) :
                     _readers[i].reader = last'.reader =>
                         _readers[i].key = resolve(last'.asked)
      ]_vars

\* C36 witness: of two calls, one asking for "./p" and one for "p", one has
\* constructed the reader and the other has been handed that same reader
C36_Witness ==
    /\ last.op = "get_reader" /\ last.status = "ok"
    /\ last.asked = "p"
    /\ counted.spelled = {"./p"}
    /\ counted.calls = 2
    /\ made = 1 /\ last.reader = 1
    /\ _hits = 1 /\ _misses = 1
    /\ Len(_readers) = 1

\* C37: when get_reader fails with FileNotFoundError, the step that
\* constructs the reader leaves the registry, _hits and _misses unchanged.
C37_FailedConstructionLeavesRegistry ==
    [][(last'.op = "get_reader" /\ last'.status = "FileNotFoundError") =>
          /\ _readers' = _readers
          /\ _hits' = _hits
          /\ _misses' = _misses
      ]_vars

-----------------------------------------------------------------------------
(* Properties of preload_files (PreloadSpec).                              *)

\* C40: preload_files in metadata mode leaves the reader of a loaded file
\* with an empty data cache, an empty row-count cache and both counters at
\* zero, whatever the reader held before; in full mode it leaves in the data
\* cache the full-keyed entry of the first sheet, stored at the file's
\* current modification time with the file's current content.
C40_PreloadLeavesCaches ==
    [][(last'.op = "preload_files" /\ last'.status = "loaded" /\ file' = file) =>
          IF last'.mode = "metadata"
          THEN /\ cache' = <<>>
               /\ row_count_cache' = <<>>
               /\ cache_hits' = 0
               /\ cache_misses' = 0
          ELSE LET k == _normalize_cache_key(NoneVal, UseNone)
               IN  /\ HasKey(cache', k)
                   /\ Get(cache', k).mtime = file.mtime
                   /\ \A i \in 1..Len(Get(cache', k).df.cols) :
                          Get(cache', k).df.cols[i].val.ver = file.mtime
      ]_vars

\* C40 witness: a metadata preload has emptied caches that held entries and
\* zeroed counters that had counted
C40_Witness ==
    /\ last.op = "preload_files" /\ last.mode = "metadata" /\ last.status = "loaded"
    /\ last.held > 1
    /\ last.counted > 0
    /\ cache = <<>> /\ row_count_cache = <<>>
    /\ cache_hits = 0 /\ cache_misses = 0

-----------------------------------------------------------------------------
(* Properties of the cache as a whole (Spec).                              *)

\* C38: the cache is transparent: the DataFrame a successful _read_file call
\* hands back, its columns in their order and their values, is the one a
\* decode of the file as it is gives for the same sheet and selection, whether
\* the call was a decode, an exact hit or a derived hit; a decode is what a
\* reader with enable_cache=False returns on every call.
C38_CacheTransparent ==
    [][(/\ last' # last
        /\ last'.op = "_read_file"
        /\ last'.status = "ok"
        /\ file' = file
        /\ Clean(last'.df.cols))
         => last'.df.cols = Decode(last'.sheet, last'.usecols, FALSE).cols
      ]_vars

-----------------------------------------------------------------------------
(* Properties of the statement-by-statement calls (StepSpec).              *)

\* C39: whatever the interleaving of _read_file and clear_cache calls on one
\* reader, an entry that a call found by its membership test is still in the
\* cache when the call fetches it and when it moves it to the most recently
\* used end, and no call ends with a KeyError.
C39_EntryFoundStaysPresent ==
    /\ \A t \in Threads :
          /\ calls[t].pc \in {"fetch", "move"} => HasKey(cache, CacheKey(t))
          /\ calls[t].pc = "fullfetch" => HasKey(cache, FullKey(t))
          /\ calls[t].pc = "stored" => HasKey(cache, CacheKey(t))
    /\ (last.op = "_read_file" => last.err # "KeyError")

====
